---------------------------- MODULE Spec2Model ----------------------------
(***************************************************************************)
(* Model of the FORGE deterministic variation/session engine               *)
(* (crate forge-variation: src/lib.rs, src/session.rs, src/project.rs).    *)
(*                                                                         *)
(* Representation of the Rust values:                                      *)
(*   u64      a tuple of 8 bytes, least significant byte first, so that    *)
(*            wrapping_add / wrapping_mul / >> / ^ are computed at their   *)
(*            true 64-bit width;                                           *)
(*   f32      a record [k, v]: k = "fin" with v the value in hundredths,   *)
(*            k = "inf" with v the sign, k = "nan";                        *)
(*   String   a TLA+ string where it is only built and compared, a tuple   *)
(*            of one-character strings where the code inspects its         *)
(*            characters (trim);                                           *)
(*   Option   <<>> for None, <<x>> for Some(x);                            *)
(*   Result   a record [err, val]: err = "Ok" and the returned value, or    *)
(*            the name of the error variant.                               *)
(***************************************************************************)
EXTENDS Integers, Sequences, FiniteSets, TLC

VARIABLES
    live,       \* TRUE once SessionV1::new has returned Ok(session)
    session,    \* the SessionV1 value owned by the caller
    files,      \* the paths that exist on the file system
    last,       \* the last call: [op, args, ret]
    steps,      \* number of calls made on the session and the file system
    dirs,       \* the directories that exist below the working directory
    disk,       \* the session files: path |-> content
    twin,       \* a second SessionV1, given the same calls as session
    project     \* the Project value owned by the caller

vars == <<live, session, files, last, steps, dirs, disk, twin, project>>

----------------------------------------------------------------------------
(* Bounds of the exploration.                                              *)

MaxOps == 4
MaxCount == 2
MaxPersistOps == 2
MaxTwinOps == 2
MaxProjectOps == 3

----------------------------------------------------------------------------
(* 64-bit unsigned arithmetic on 8-byte tuples (byte 1 least significant). *)

Bytes == 1..8

\* The 8-byte tuple of a function on Bytes, evaluated once
Tup8(f) == <<f[1], f[2], f[3], f[4], f[5], f[6], f[7], f[8]>>

U64Zero == <<0, 0, 0, 0, 0, 0, 0, 0>>

\* usize as u64 (indices below 2^31)
U64FromNat(n) == <<n % 256, (n \div 256) % 256, (n \div 65536) % 256,
                   (n \div 16777216) % 256, 0, 0, 0, 0>>

ByteAt(a, i) == IF i \in Bytes THEN a[i] ELSE 0

\* Faulty variant of wrapping_add: the sum saturates at u64::MAX
wrapping_add_Saturating(a, b) ==
    LET carry[i \in 0..8] ==
            IF i = 0 THEN 0 ELSE (a[i] + b[i] + carry[i - 1]) \div 256
    IN  IF carry[8] = 1 THEN <<255, 255, 255, 255, 255, 255, 255, 255>>
        ELSE Tup8([i \in Bytes |-> (a[i] + b[i] + carry[i - 1]) % 256])

\* u64::wrapping_add
wrapping_add(a, b) ==
    LET carry[i \in 0..8] ==
            IF i = 0 THEN 0 ELSE (a[i] + b[i] + carry[i - 1]) \div 256
    IN  Tup8([i \in Bytes |-> (a[i] + b[i] + carry[i - 1]) % 256])

ColumnSum(a, b, k) ==
    LET part[i \in 0..k] ==
            IF i = 0 THEN 0 ELSE part[i - 1] + a[i] * b[k + 1 - i]
    IN  part[k]

\* u64::wrapping_mul: schoolbook product, columns above byte 8 dropped
wrapping_mul(a, b) ==
    LET col[k \in 0..8] ==
            IF k = 0 THEN 0 ELSE ColumnSum(a, b, k) + (col[k - 1] \div 256)
    IN  Tup8([k \in Bytes |-> col[k] % 256])

Pow2(n) == IF n = 0 THEN 1
           ELSE IF n = 1 THEN 2
           ELSE IF n = 2 THEN 4
           ELSE IF n = 3 THEN 8
           ELSE IF n = 4 THEN 16
           ELSE IF n = 5 THEN 32
           ELSE IF n = 6 THEN 64
           ELSE IF n = 7 THEN 128
           ELSE 256

\* z >> n on u64 (logical shift, zeros shifted in)
Shr(a, n) ==
    LET q == n \div 8
        r == n % 8
    IN  Tup8([i \in Bytes |->
            (ByteAt(a, i + q) \div Pow2(r))
            + (ByteAt(a, i + q + 1) % Pow2(r)) * Pow2(8 - r)])

RECURSIVE XorBits(_, _, _)
XorBits(x, y, n) ==
    IF n = 0 THEN 0
    ELSE ((x + y) % 2) + 2 * XorBits(x \div 2, y \div 2, n - 1)

\* a ^ b on u64
Xor(a, b) == Tup8([i \in Bytes |-> XorBits(a[i], b[i], 8)])

\* Division of a u64 by ten: quotient and remainder (long division from the
\* most significant byte).
DivMod10(a) ==
    LET rem[i \in 1..9] ==
            IF i = 9 THEN 0 ELSE (rem[i + 1] * 256 + a[i]) % 10
    IN  [quot |-> Tup8([i \in Bytes |-> (rem[i + 1] * 256 + a[i]) \div 10]),
         rem  |-> rem[1]]

Digit(d) == ToString(d)

RECURSIVE DecDigits(_)
DecDigits(a) ==
    IF a = U64Zero THEN ""
    ELSE LET qr == DivMod10(a) IN DecDigits(qr.quot) \o Digit(qr.rem)

\* Display of a u64 ("{}"): its decimal digits, no padding
FormatU64(a) == IF a = U64Zero THEN "0" ELSE DecDigits(a)

\* Faulty variant of FormatIndex04: no padding
FormatIndex04_Unpadded(i) == ToString(i)

\* Display of a usize with "{:04}": zero padded to at least four digits
FormatIndex04(i) ==
    IF i < 10 THEN "000" \o ToString(i)
    ELSE IF i < 100 THEN "00" \o ToString(i)
    ELSE IF i < 1000 THEN "0" \o ToString(i)
    ELSE ToString(i)

\* Display of a usize with "{}"
FormatUsize(n) == ToString(n)

----------------------------------------------------------------------------
(* Seed::derive (SplitMix64-style mixing).                                 *)

\* 0x9E3779B97F4A7C15
GoldenGamma == <<21, 124, 74, 127, 185, 121, 55, 158>>
\* 0xBF58476D1CE4E5B9
MixMul1 == <<185, 229, 228, 28, 109, 71, 88, 191>>
\* 0x94D049BB133111EB
MixMul2 == <<235, 17, 49, 19, 187, 73, 208, 148>>

\* Seed::derive(self, index: u64)
derive(seed, index) ==
    LET z0 == wrapping_add(wrapping_add(seed, GoldenGamma), index)
        z1 == wrapping_mul(Xor(z0, Shr(z0, 30)), MixMul1)
        z2 == wrapping_mul(Xor(z1, Shr(z1, 27)), MixMul2)
    IN  Xor(z2, Shr(z2, 31))

----------------------------------------------------------------------------
(* f32 values: finite (in hundredths), infinite, NaN.                      *)

Fin(n) == [k |-> "fin", v |-> n]
NaN == [k |-> "nan", v |-> 0]
PosInf == [k |-> "inf", v |-> 1]
NegInf == [k |-> "inf", v |-> -1]

\* f32::is_finite
is_finite(x) == x.k = "fin"

\* a < b on f32: false whenever either side is NaN
FLt(a, b) ==
    /\ a.k # "nan"
    /\ b.k # "nan"
    /\ IF a.k = "fin" /\ b.k = "fin" THEN a.v < b.v
       ELSE IF a.k = "inf" /\ b.k = "inf" THEN a.v < b.v
       ELSE IF a.k = "inf" THEN a.v < 0
       ELSE b.v > 0

\* a > b on f32
FGt(a, b) == FLt(b, a)

\* a + b on f32 (finite sums stay far below f32::MAX in this model)
FAdd(a, b) ==
    IF a.k = "nan" \/ b.k = "nan" THEN NaN
    ELSE IF a.k = "inf" /\ b.k = "inf" THEN (IF a.v = b.v THEN a ELSE NaN)
    ELSE IF a.k = "inf" THEN a
    ELSE IF b.k = "inf" THEN b
    ELSE Fin(a.v + b.v)

----------------------------------------------------------------------------
(* Bounded and ParameterSetV1.                                             *)

Bounded(value, min, max) == [value |-> value, min |-> min, max |-> max]

\* Faulty variant of clamped: a value outside the range is moved one unit
\* towards it instead of onto the bound
clamped_Stepping(b) ==
    IF FLt(b.value, b.min) THEN [b EXCEPT !.value = FAdd(@, Fin(100))]
    ELSE IF FGt(b.value, b.max) THEN [b EXCEPT !.value = FAdd(@, Fin(-100))]
    ELSE b

\* Bounded::clamped
clamped(b) ==
    IF FLt(b.value, b.min) THEN [b EXCEPT !.value = b.min]
    ELSE IF FGt(b.value, b.max) THEN [b EXCEPT !.value = b.max]
    ELSE b

\* a >= b on f32: false whenever either side is NaN
FGe(a, b) == a.k # "nan" /\ b.k # "nan" /\ ~FLt(a, b)

\* Faulty variant of Bounded_new: the bounds are refused only if min >= max
Bounded_new_GeTest(value, min, max) ==
    IF FGe(min, max)
    THEN [err |-> "InvalidBounds", val |-> [min |-> min, max |-> max]]
    ELSE [err |-> "Ok", val |-> clamped(Bounded(value, min, max))]

\* Bounded::new
Bounded_new(value, min, max) ==
    IF ~FLt(min, max)
    THEN [err |-> "InvalidBounds", val |-> [min |-> min, max |-> max]]
    ELSE [err |-> "Ok", val |-> clamped(Bounded(value, min, max))]

\* Bounded::set: the parameter afterwards (the method returns nothing)
set(b, new_value) == clamped([b EXCEPT !.value = new_value])

ParamFields == <<"height_scale", "extrusion_depth", "bevel_amount",
                 "symmetry_break", "erosion_intensity", "detail_density">>

\* impl Default for ParameterSetV1
ParameterSetV1_default ==
    [height_scale      |-> Bounded(Fin(100), Fin(50), Fin(200)),
     extrusion_depth   |-> Bounded(Fin(50), Fin(10), Fin(100)),
     bevel_amount      |-> Bounded(Fin(10), Fin(0), Fin(50)),
     symmetry_break    |-> Bounded(Fin(0), Fin(0), Fin(100)),
     erosion_intensity |-> Bounded(Fin(0), Fin(0), Fin(100)),
     detail_density    |-> Bounded(Fin(20), Fin(0), Fin(100))]

\* One `if let Some(v) = delta.<field>` block of apply_delta; a delta field
\* is <<>> (None) or <<v>> (Some(v)).
ApplyField(b, d) ==
    IF d = <<>> THEN b
    ELSE clamped([b EXCEPT !.value = FAdd(b.value, d[1])])

\* The first field of ParamFields from position i on that delta sets, or 0
RECURSIVE FirstPresent(_, _)
FirstPresent(delta, i) ==
    IF i > Len(ParamFields) THEN 0
    ELSE IF delta[ParamFields[i]] # <<>> THEN i
    ELSE FirstPresent(delta, i + 1)

\* Faulty variant of apply_delta: the method returns after the first field
\* the delta sets
apply_delta_FirstOnly(p, delta) ==
    LET i == FirstPresent(delta, 1)
    IN  IF i = 0 THEN p
        ELSE [p EXCEPT ![ParamFields[i]] = ApplyField(@, delta[ParamFields[i]])]

\* ParameterSetV1::apply_delta
apply_delta(p, delta) ==
    [height_scale      |-> ApplyField(p.height_scale, delta.height_scale),
     extrusion_depth   |-> ApplyField(p.extrusion_depth, delta.extrusion_depth),
     bevel_amount      |-> ApplyField(p.bevel_amount, delta.bevel_amount),
     symmetry_break    |-> ApplyField(p.symmetry_break, delta.symmetry_break),
     erosion_intensity |-> ApplyField(p.erosion_intensity, delta.erosion_intensity),
     detail_density    |-> ApplyField(p.detail_density, delta.detail_density)]

\* The test of the loop body of ParameterSetV1::validate
OutOfBounds(b) == FLt(b.value, b.min) \/ FGt(b.value, b.max)

RECURSIVE FirstOutOfBounds(_, _)
FirstOutOfBounds(p, i) ==
    IF i > Len(ParamFields) THEN 0
    ELSE IF OutOfBounds(p[ParamFields[i]]) THEN i
    ELSE FirstOutOfBounds(p, i + 1)

\* ParameterSetV1::validate: Ok, or OutOfRange for the first field out of
\* its bounds in declaration order
params_validate(p) ==
    LET i == FirstOutOfBounds(p, 1)
    IN  IF i = 0 THEN [err |-> "Ok", val |-> <<>>]
        ELSE [err |-> "OutOfRange",
              val |-> [field |-> ParamFields[i],
                       value |-> p[ParamFields[i]].value,
                       min   |-> p[ParamFields[i]].min,
                       max   |-> p[ParamFields[i]].max]]

\* ParameterDeltaV1::default(): every field None
ParameterDeltaV1_default ==
    [height_scale |-> <<>>, extrusion_depth |-> <<>>, bevel_amount |-> <<>>,
     symmetry_break |-> <<>>, erosion_intensity |-> <<>>, detail_density |-> <<>>]

----------------------------------------------------------------------------
(* VariationSpecV1::generate_batch.                                        *)

PARAM_SCHEMA_VERSION == "1.0"

\* format!("var_{:04}_{}", i, seed.0)
FormatVariationId(i, seed) ==
    "var_" \o FormatIndex04(i) \o "_" \o FormatU64(seed)

\* The seed and id of index i of a batch: base_seed.derive(i as u64) and the
\* id formatted from it
SeedAndId(base_seed, i) ==
    LET seed == derive(base_seed, U64FromNat(i))
    IN  [seed |-> seed, variation_id |-> FormatVariationId(i, seed)]

\* SeedAndId tabulated once for the base seeds and indices the sessions of
\* this model use (the functions are pure, so the table holds their values)
MemoSeeds == {U64FromNat(42), <<255, 255, 255, 255, 255, 255, 255, 255>>}
MemoIndices == 0..7
SeedAndIdTable ==
    {<<base_seed, i, SeedAndId(base_seed, i)>> :
        base_seed \in MemoSeeds, i \in MemoIndices}

SeedAndIdOf(base_seed, i) ==
    IF base_seed \in MemoSeeds /\ i \in MemoIndices
    THEN (CHOOSE t \in SeedAndIdTable : t[1] = base_seed /\ t[2] = i)[3]
    ELSE SeedAndId(base_seed, i)

\* Faulty variant of GenerateSpec: the seed is salted with the session
GenerateSpec_SessionSalted(base_session_id, asset_class, base_seed, base_params, intent_text, i) ==
    LET salted == IF base_session_id = "uuid-a" THEN base_seed
                  ELSE wrapping_add(base_seed, U64FromNat(1))
        si == SeedAndId(salted, i)
    IN  [variation_id    |-> si.variation_id,
         base_session_id |-> base_session_id,
         asset_class     |-> asset_class,
         schema_version  |-> PARAM_SCHEMA_VERSION,
         seed            |-> si.seed,
         params          |-> base_params,
         intent_text     |-> intent_text]

\* Faulty variant of GenerateSpec: the seed is salted with the length of the
\* intent text
GenerateSpec_IntentSalted(base_session_id, asset_class, base_seed, base_params, intent_text, i) ==
    LET salted == wrapping_add(base_seed, U64FromNat(Len(intent_text)))
        si == SeedAndIdOf(salted, i)
    IN  [variation_id    |-> si.variation_id,
         base_session_id |-> base_session_id,
         asset_class     |-> asset_class,
         schema_version  |-> PARAM_SCHEMA_VERSION,
         seed            |-> si.seed,
         params          |-> base_params,
         intent_text     |-> intent_text]

\* The closure of generate_batch, for index i of (0..count)
GenerateSpec(base_session_id, asset_class, base_seed, base_params, intent_text, i) ==
    LET si == SeedAndIdOf(base_seed, i)
    IN  [variation_id    |-> si.variation_id,
         base_session_id |-> base_session_id,
         asset_class     |-> asset_class,
         schema_version  |-> PARAM_SCHEMA_VERSION,
         seed            |-> si.seed,
         params          |-> base_params,
         intent_text     |-> intent_text]

\* Faulty variant of generate_batch: the range includes count
generate_batch_Inclusive(base_session_id, asset_class, base_seed, base_params, intent_text, count) ==
    [n \in 1..(count + 1) |->
        GenerateSpec(base_session_id, asset_class, base_seed, base_params,
                     intent_text, n - 1)]

\* VariationSpecV1::generate_batch: (0..count).map(..).collect()
generate_batch(base_session_id, asset_class, base_seed, base_params, intent_text, count) ==
    [n \in 1..count |->
        GenerateSpec(base_session_id, asset_class, base_seed, base_params,
                     intent_text, n - 1)]

----------------------------------------------------------------------------
(* Session model (session.rs).                                             *)

Ok(v) == [err |-> "Ok", val |-> v]
Err(e, payload) == [err |-> e, val |-> payload]

Whitespace == {" ", "\t", "\n"}

RECURSIVE TrimStart(_)
TrimStart(t) ==
    IF t # <<>> /\ Head(t) \in Whitespace THEN TrimStart(Tail(t)) ELSE t

RECURSIVE TrimEnd(_)
TrimEnd(t) ==
    IF t # <<>> /\ t[Len(t)] \in Whitespace
    THEN TrimEnd(SubSeq(t, 1, Len(t) - 1))
    ELSE t

\* Faulty variant of trim: the text is tested as given
trim_None(t) == t

\* str::trim
trim(t) == TrimEnd(TrimStart(t))

\* Faulty variant of base_input_validate: the path is not looked up
base_input_validate_Unchecked(base_input, fs) == Ok(<<>>)

\* BaseInputRefV1::validate
base_input_validate(base_input, fs) ==
    IF base_input.source_path \notin fs
    THEN Err("InvalidPath", [path |-> base_input.source_path])
    ELSE Ok(<<>>)

\* Faulty variant of is_valid: the is_finite tests are missing
is_valid_NoFiniteTest(d) ==
    /\ FGt(d.height, Fin(0))
    /\ FGt(d.width, Fin(0))
    /\ FGt(d.depth, Fin(0))

\* DimensionsMeters::is_valid
is_valid(d) ==
    /\ is_finite(d.height)
    /\ is_finite(d.width)
    /\ is_finite(d.depth)
    /\ FGt(d.height, Fin(0))
    /\ FGt(d.width, Fin(0))
    /\ FGt(d.depth, Fin(0))

\* impl Default for ExportSettingsV1
ExportSettingsV1_default ==
    [pivot |-> "BaseCenter", collision |-> "Box", generate_lods |-> TRUE]

\* The value of `session` while no SessionV1 has been constructed
NoSession == <<>>

\* SessionV1::new; session_id is the value Uuid::new_v4() returns
SessionV1_new(asset_class, base_input, base_seed, session_id, fs) ==
    LET checked == base_input_validate(base_input, fs)
    IN  IF checked.err # "Ok" THEN checked
        ELSE Ok([session_id     |-> session_id,
                 asset_class    |-> asset_class,
                 schema_version |-> PARAM_SCHEMA_VERSION,
                 base_input     |-> base_input,
                 base_seed      |-> base_seed,
                 base_params    |-> ParameterSetV1_default,
                 intent_history |-> <<>>,
                 variations     |-> <<>>,
                 approvals      |-> <<>>,
                 notes          |-> <<>>])

\* ParameterSetV1::clamp_all
clamp_all(p) ==
    [height_scale      |-> clamped(p.height_scale),
     extrusion_depth   |-> clamped(p.extrusion_depth),
     bevel_amount      |-> clamped(p.bevel_amount),
     symmetry_break    |-> clamped(p.symmetry_break),
     erosion_intensity |-> clamped(p.erosion_intensity),
     detail_density    |-> clamped(p.detail_density)]

\* a - b on f32
FSub(a, b) ==
    FAdd(a, IF b.k = "fin" THEN Fin(0 - b.v)
            ELSE IF b.k = "inf" THEN [k |-> "inf", v |-> 0 - b.v]
            ELSE NaN)

\* (0.0..=1.0).contains(&v): 0.0 <= v && v <= 1.0
InUnitRange(v) == FGe(v, Fin(0)) /\ FGe(Fin(100), v)

\* The position of the first of the four aesthetic values outside
\* [0.0, 1.0], in the order AestheticProfile::validate tests them, or 0
AestheticFields == <<"geometry_complexity", "realism", "wear_tendency",
                     "symmetry_preference">>

RECURSIVE FirstBadAesthetic(_, _)
FirstBadAesthetic(a, i) ==
    IF i > Len(AestheticFields) THEN 0
    ELSE IF ~InUnitRange(a[AestheticFields[i]]) THEN i
    ELSE FirstBadAesthetic(a, i + 1)

\* AestheticProfile::validate
aesthetic_validate(a) ==
    LET i == FirstBadAesthetic(a, 1)
    IN  IF i = 0 THEN Ok(<<>>)
        ELSE Err("InvalidAestheticValue",
                 [field |-> AestheticFields[i], value |-> a[AestheticFields[i]]])

\* ProjectStyleProfile::validate (the colours of the palettes of this model
\* are those of the presets, which ColorPalette::validate accepts)
style_validate(style) ==
    LET a == aesthetic_validate(style.aesthetic)
    IN  IF a.err # "Ok" THEN a
        ELSE IF ~InUnitRange(style.pixel_density)
        THEN Err("InvalidStyleValue",
                 [field |-> "pixel_density", value |-> style.pixel_density])
        ELSE IF ~InUnitRange(style.edge_sharpness)
        THEN Err("InvalidStyleValue",
                 [field |-> "edge_sharpness", value |-> style.edge_sharpness])
        ELSE Ok(<<>>)

\* ProjectStyleProfile::apply_to_params
apply_to_params(style, params) ==
    clamp_all(
        [params EXCEPT
            !.erosion_intensity.value = style.aesthetic.wear_tendency,
            !.symmetry_break.value = FSub(Fin(100), style.aesthetic.symmetry_preference),
            !.detail_density.value = style.aesthetic.geometry_complexity,
            !.bevel_amount.value = FSub(Fin(100), style.edge_sharpness)])

\* The value of `project` while no Project has been constructed
NoProject == <<>>

\* Project::new; project_id is the value Uuid::new_v4() returns (the two
\* time stamps and the description are left out: nothing reads them)
Project_new(name, style_profile, project_id) ==
    IF trim(name) = <<>> THEN Err("EmptyName", <<>>)
    ELSE LET checked == style_validate(style_profile)
         IN  IF checked.err # "Ok" THEN checked
             ELSE Ok([project_id      |-> project_id,
                      name            |-> name,
                      style_profile   |-> style_profile,
                      sessions        |-> <<>>,
                      class_overrides |-> <<>>])

\* format!("{:?}", asset_class): the name of the variant, which is what
\* stands for an AssetClass in this model
DebugKey(asset_class) == asset_class

\* HashMap::insert on class_overrides, a function from keys to sets
MapInsert(m, key, value) ==
    [k \in DOMAIN m \cup {key} |-> IF k = key THEN value ELSE m[k]]

\* HashMap::remove
MapRemove(m, key) == [k \in DOMAIN m \ {key} |-> m[k]]

\* Project::set_class_override: the project afterwards
set_class_override(pr, asset_class, params) ==
    [pr EXCEPT !.class_overrides = MapInsert(@, DebugKey(asset_class), params)]

\* Project::clear_class_override: the project afterwards
clear_class_override(pr, asset_class) ==
    [pr EXCEPT !.class_overrides = MapRemove(@, DebugKey(asset_class))]

\* The base_params Project::create_session gives the new session: the
\* style applied to the defaults, replaced by the override of the class
\* if there is one
SessionParams(pr, asset_class, base_params) ==
    LET styled == apply_to_params(pr.style_profile, base_params)
        key == DebugKey(asset_class)
    IN  IF key \in DOMAIN pr.class_overrides
        THEN pr.class_overrides[key]
        ELSE styled

\* Project::create_session: the project afterwards and the returned Result
create_session(pr, asset_class, base_input, base_seed, session_id, fs) ==
    LET made == SessionV1_new(asset_class, base_input, base_seed, session_id, fs)
    IN  IF made.err # "Ok"
        THEN [p |-> pr, ret |-> Err("SessionCreation", made)]
        ELSE [p |-> [pr EXCEPT !.sessions = Append(@, session_id)],
              ret |-> Ok([made.val EXCEPT !.base_params =
                            SessionParams(pr, asset_class, @)])]

\* Project::validate
project_validate(pr) ==
    IF trim(pr.name) = <<>> THEN Err("EmptyName", <<>>)
    ELSE LET checked == style_validate(pr.style_profile)
         IN  IF checked.err # "Ok" THEN checked
             ELSE IF \E k \in DOMAIN pr.class_overrides :
                        params_validate(pr.class_overrides[k]).err # "Ok"
             THEN Err("InvalidOverrideParams", <<>>)
             ELSE Ok(<<>>)

\* Faulty variant of NextIteration: iterations count from one
NextIteration_OneBased(s) == Len(s.intent_history) + 1

\* `self.intent_history.len() as u32`: the iteration of the next entry
\* (the log of this model stays far below 2^32 entries)
NextIteration(s) == Len(s.intent_history)

\* SessionV1::push_intent: the session afterwards and the returned Result
push_intent(s, text) ==
    LET trimmed == trim(text)
        iter == NextIteration(s)
    IN  IF trimmed = <<>>
        THEN [s |-> s, ret |-> Err("EmptyIntent", <<>>)]
        ELSE [s |-> [s EXCEPT !.intent_history =
                        Append(@, [iteration |-> iter, text |-> text])],
              ret |-> Ok(iter)]

\* Faulty variant of apply_base_delta: the delta also reaches the snapshots
apply_base_delta_Propagating(s, delta) ==
    [s EXCEPT !.base_params = apply_delta(@, delta),
              !.variations = [i \in 1..Len(@) |->
                                [@[i] EXCEPT !.params = apply_delta(@, delta)]]]

\* SessionV1::apply_base_delta
apply_base_delta(s, delta) ==
    [s EXCEPT !.base_params = apply_delta(@, delta)]

\* Faulty variant of generate_variations: regenerating clears the approvals
generate_variations_DroppingApprovals(s, count, intent_text) ==
    [s EXCEPT !.variations = generate_batch(s.session_id, s.asset_class,
                                            s.base_seed, s.base_params,
                                            intent_text, count),
              !.approvals = <<>>]

\* Faulty variant of generate_variations: the previous batch is kept
generate_variations_Extending(s, count, intent_text) ==
    [s EXCEPT !.variations = @ \o generate_batch(s.session_id, s.asset_class,
                                                 s.base_seed, s.base_params,
                                                 intent_text, count)]

\* SessionV1::generate_variations
generate_variations(s, count, intent_text) ==
    LET batch == generate_batch(s.session_id, s.asset_class, s.base_seed,
                                s.base_params, intent_text, count)
    IN  [s EXCEPT !.variations = batch]

\* Faulty variant of append_variations: the new batch replaces the collection
append_variations_Replacing(s, count, intent_text) ==
    generate_variations(s, count, intent_text)

\* SessionV1::append_variations
append_variations(s, count, intent_text) ==
    LET batch == generate_batch(s.session_id, s.asset_class, s.base_seed,
                                s.base_params, intent_text, count)
    IN  [s EXCEPT !.variations = @ \o batch]

\* Faulty variant of FormatApprovedId: the ordinal counts from one
FormatApprovedId_OneBased(n, variation_id) ==
    "appr_" \o FormatUsize(n + 1) \o "_" \o variation_id

\* Faulty variant of FormatApprovedId: the ordinal is left out
FormatApprovedId_NoOrdinal(n, variation_id) ==
    "appr_" \o variation_id

\* format!("appr_{}_{}", self.approvals.len(), variation_id)
FormatApprovedId(n, variation_id) ==
    "appr_" \o FormatUsize(n) \o "_" \o variation_id

\* Faulty variant of VariationExists: the existence test is missing
VariationExists_Always(s, variation_id) == TRUE

\* Faulty variant of VariationExists: only tests that a batch is present
VariationExists_AnyBatch(s, variation_id) == Len(s.variations) > 0

\* self.variations.iter().any(|v| v.variation_id == variation_id)
VariationExists(s, variation_id) ==
    \E i \in 1..Len(s.variations) : s.variations[i].variation_id = variation_id

\* Faulty variant of AlreadyApproved: the duplicate test is missing
AlreadyApproved_Never(s, variation_id) == FALSE

\* self.approvals.iter().any(|a| a.variation_id == variation_id)
AlreadyApproved(s, variation_id) ==
    \E j \in 1..Len(s.approvals) : s.approvals[j].variation_id = variation_id

\* Faulty variant of approve_variation: the approval is pushed before the
\* duplicate test, so a refused duplicate stays in the session
approve_variation_PushBeforeTest(s, variation_id, dimensions, export, user_label) ==
    LET approved_id == FormatApprovedId(Len(s.approvals), variation_id)
        pushed == [s EXCEPT !.approvals =
                      Append(@, [approved_id  |-> approved_id,
                                 variation_id |-> variation_id,
                                 dimensions   |-> dimensions,
                                 export       |-> export,
                                 user_label   |-> user_label])]
    IN  IF ~is_valid(dimensions)
        THEN [s |-> s, ret |-> Err("InvalidDimensions", <<>>)]
        ELSE IF ~VariationExists(s, variation_id)
        THEN [s |-> s,
              ret |-> Err("UnknownVariation", [variation_id |-> variation_id])]
        ELSE IF AlreadyApproved(s, variation_id)
        THEN [s |-> pushed,
              ret |-> Err("DuplicateApproval", [variation_id |-> variation_id])]
        ELSE [s |-> pushed, ret |-> Ok(approved_id)]

\* Faulty variant of approve_variation: the duplicate test comes before the
\* existence test
approve_variation_DuplicateFirst(s, variation_id, dimensions, export, user_label) ==
    LET approved_id == FormatApprovedId(Len(s.approvals), variation_id)
    IN  IF ~is_valid(dimensions)
        THEN [s |-> s, ret |-> Err("InvalidDimensions", <<>>)]
        ELSE IF AlreadyApproved(s, variation_id)
        THEN [s |-> s,
              ret |-> Err("DuplicateApproval", [variation_id |-> variation_id])]
        ELSE IF ~VariationExists(s, variation_id)
        THEN [s |-> s,
              ret |-> Err("UnknownVariation", [variation_id |-> variation_id])]
        ELSE [s |-> [s EXCEPT !.approvals =
                        Append(@, [approved_id  |-> approved_id,
                                   variation_id |-> variation_id,
                                   dimensions   |-> dimensions,
                                   export       |-> export,
                                   user_label   |-> user_label])],
              ret |-> Ok(approved_id)]

\* SessionV1::approve_variation: the session afterwards and the returned Result
approve_variation(s, variation_id, dimensions, export, user_label) ==
    LET approved_id == FormatApprovedId(Len(s.approvals), variation_id)
    IN  IF ~is_valid(dimensions)
        THEN [s |-> s, ret |-> Err("InvalidDimensions", <<>>)]
        ELSE IF ~VariationExists(s, variation_id)
        THEN [s |-> s,
              ret |-> Err("UnknownVariation", [variation_id |-> variation_id])]
        ELSE IF AlreadyApproved(s, variation_id)
        THEN [s |-> s,
              ret |-> Err("DuplicateApproval", [variation_id |-> variation_id])]
        ELSE [s |-> [s EXCEPT !.approvals =
                        Append(@, [approved_id  |-> approved_id,
                                   variation_id |-> variation_id,
                                   dimensions   |-> dimensions,
                                   export       |-> export,
                                   user_label   |-> user_label])],
              ret |-> Ok(approved_id)]

\* The seen_ids loop of validate: position of the first variation whose id
\* was already inserted, 0 if there is none
RECURSIVE FirstDuplicate(_, _)
FirstDuplicate(vs, i) ==
    IF i > Len(vs) THEN 0
    ELSE IF \E j \in 1..(i - 1) : vs[j].variation_id = vs[i].variation_id THEN i
    ELSE FirstDuplicate(vs, i + 1)

\* Faulty variant of CheckApprovals: every reference is tested before any
\* dimensions
CheckApprovals_ReferencesFirst(s, i) ==
    LET orphans == {k \in i..Len(s.approvals) :
                      ~\E j \in 1..Len(s.variations) :
                          s.variations[j].variation_id = s.approvals[k].variation_id}
        first == CHOOSE k \in orphans : \A m \in orphans : k <= m
    IN  IF orphans # {}
        THEN Err("OrphanedApproval",
                 [approved_id  |-> s.approvals[first].approved_id,
                  variation_id |-> s.approvals[first].variation_id])
        ELSE IF \E k \in i..Len(s.approvals) : ~is_valid(s.approvals[k].dimensions)
        THEN Err("InvalidDimensions", <<>>)
        ELSE Ok(<<>>)

\* The approvals loop of validate, from approval i on: each approval is
\* tested for its reference, then for its dimensions, before the next one
RECURSIVE CheckApprovals(_, _)
CheckApprovals(s, i) ==
    IF i > Len(s.approvals) THEN Ok(<<>>)
    ELSE IF ~\E j \in 1..Len(s.variations) :
                s.variations[j].variation_id = s.approvals[i].variation_id
    THEN Err("OrphanedApproval",
             [approved_id  |-> s.approvals[i].approved_id,
              variation_id |-> s.approvals[i].variation_id])
    ELSE IF ~is_valid(s.approvals[i].dimensions)
    THEN Err("InvalidDimensions", <<>>)
    ELSE CheckApprovals(s, i + 1)

\* SessionV1::validate
validate(s, fs) ==
    LET input == base_input_validate(s.base_input, fs)
        params == params_validate(s.base_params)
        dup == FirstDuplicate(s.variations, 1)
    IN  IF s.schema_version # PARAM_SCHEMA_VERSION
        THEN Err("SchemaVersionMismatch",
                 [expected |-> PARAM_SCHEMA_VERSION, got |-> s.schema_version])
        ELSE IF input.err # "Ok" THEN input
        ELSE IF params.err # "Ok" THEN Err("InvalidParameters", params)
        ELSE IF dup # 0
        THEN Err("DuplicateVariation",
                 [variation_id |-> s.variations[dup].variation_id])
        ELSE CheckApprovals(s, 1)

----------------------------------------------------------------------------
(* save_session / load_session. A path is the sequence of its components;  *)
(* a file holds either the JSON document of a session or text that is not  *)
(* such a document.                                                        *)

\* serde_json writes a finite f32 as a number and NaN / infinities as null
F32ToJson(x) ==
    IF is_finite(x) THEN [json |-> "number", v |-> x.v]
    ELSE [json |-> "null", v |-> 0]

\* serde_json reads a number into an f32; null is not an f32
F32FromJson(j) == Fin(j.v)

F32IsNull(j) == j.json = "null"

BoundedToJson(b) ==
    [value |-> F32ToJson(b.value), min |-> F32ToJson(b.min),
     max |-> F32ToJson(b.max)]

BoundedFromJson(j) ==
    [value |-> F32FromJson(j.value), min |-> F32FromJson(j.min),
     max |-> F32FromJson(j.max)]

BoundedHasNull(j) ==
    F32IsNull(j.value) \/ F32IsNull(j.min) \/ F32IsNull(j.max)

ParamsToJson(p) ==
    [height_scale      |-> BoundedToJson(p.height_scale),
     extrusion_depth   |-> BoundedToJson(p.extrusion_depth),
     bevel_amount      |-> BoundedToJson(p.bevel_amount),
     symmetry_break    |-> BoundedToJson(p.symmetry_break),
     erosion_intensity |-> BoundedToJson(p.erosion_intensity),
     detail_density    |-> BoundedToJson(p.detail_density)]

ParamsFromJson(j) ==
    [height_scale      |-> BoundedFromJson(j.height_scale),
     extrusion_depth   |-> BoundedFromJson(j.extrusion_depth),
     bevel_amount      |-> BoundedFromJson(j.bevel_amount),
     symmetry_break    |-> BoundedFromJson(j.symmetry_break),
     erosion_intensity |-> BoundedFromJson(j.erosion_intensity),
     detail_density    |-> BoundedFromJson(j.detail_density)]

ParamsHasNull(j) ==
    \E i \in 1..Len(ParamFields) : BoundedHasNull(j[ParamFields[i]])

DimensionsToJson(d) ==
    [height |-> F32ToJson(d.height), width |-> F32ToJson(d.width),
     depth |-> F32ToJson(d.depth)]

DimensionsFromJson(j) ==
    [height |-> F32FromJson(j.height), width |-> F32FromJson(j.width),
     depth |-> F32FromJson(j.depth)]

DimensionsHasNull(j) ==
    F32IsNull(j.height) \/ F32IsNull(j.width) \/ F32IsNull(j.depth)

\* The JSON document of a session: strings, integers, enums and options are
\* written as they are, every f32 through F32ToJson
SessionToJson(s) ==
    [s EXCEPT
        !.base_params = ParamsToJson(s.base_params),
        !.variations = [i \in 1..Len(s.variations) |->
            [s.variations[i] EXCEPT
                !.params = ParamsToJson(s.variations[i].params)]],
        !.approvals = [i \in 1..Len(s.approvals) |->
            [s.approvals[i] EXCEPT
                !.dimensions = DimensionsToJson(s.approvals[i].dimensions)]]]

SessionFromJson(j) ==
    [j EXCEPT
        !.base_params = ParamsFromJson(j.base_params),
        !.variations = [i \in 1..Len(j.variations) |->
            [j.variations[i] EXCEPT
                !.params = ParamsFromJson(j.variations[i].params)]],
        !.approvals = [i \in 1..Len(j.approvals) |->
            [j.approvals[i] EXCEPT
                !.dimensions = DimensionsFromJson(j.approvals[i].dimensions)]]]

SessionHasNull(j) ==
    \/ ParamsHasNull(j.base_params)
    \/ \E i \in 1..Len(j.variations) : ParamsHasNull(j.variations[i].params)
    \/ \E i \in 1..Len(j.approvals) :
            DimensionsHasNull(j.approvals[i].dimensions)

\* Text that is not the JSON document of a SessionV1 (truncated, empty, ...)
Malformed == [kind |-> "malformed", doc |-> <<>>]

\* serde_json::to_string_pretty(session): cannot fail on a SessionV1
to_string_pretty(s) == [kind |-> "json", doc |-> SessionToJson(s)]

\* serde_json::from_str::<SessionV1>(&data)
from_str(data) ==
    IF data.kind # "json" THEN Err("Serialization", <<>>)
    ELSE IF SessionHasNull(data.doc) THEN Err("Serialization", <<>>)
    ELSE Ok(SessionFromJson(data.doc))

\* Path::parent: None (<<>>) for the empty path, else Some of the path
\* without its last component
path_parent(path) ==
    IF Len(path) = 0 THEN <<>> ELSE <<SubSeq(path, 1, Len(path) - 1)>>

\* fs::create_dir_all: the directory and every missing ancestor
create_dir_all(ds, dir) == ds \cup {SubSeq(dir, 1, n) : n \in 1..Len(dir)}

\* fs::write(path, contents): the file holds exactly contents afterwards
fs_write(dk, path, contents) ==
    [q \in DOMAIN dk \cup {path} |-> IF q = path THEN contents ELSE dk[q]]

\* The way the file system answers during one save_session
IoOutcomes == {"ok", "mkdir_fails", "write_fails", "write_cut_short"}

\* Faulty variant of save_session: the file is written before validating
save_session_WriteFirst(path, s, fs, ds, dk, io) ==
    LET checked == validate(s, fs)
        parent == path_parent(path)
        made == IF parent = <<>> THEN ds ELSE create_dir_all(ds, parent[1])
    IN  [dirs |-> made,
         disk |-> fs_write(dk, path, to_string_pretty(s)),
         ret  |-> IF checked.err # "Ok" THEN checked ELSE Ok(<<>>)]

\* save_session(path, &session): the directories and files afterwards and
\* the returned Result; io is the answer of the file system
save_session(path, s, fs, ds, dk, io) ==
    LET checked == validate(s, fs)
        parent == path_parent(path)
        made == IF parent = <<>> THEN ds ELSE create_dir_all(ds, parent[1])
    IN  IF checked.err # "Ok"
        THEN [dirs |-> ds, disk |-> dk, ret |-> checked]
        ELSE IF parent # <<>> /\ parent[1] # <<>> /\ io = "mkdir_fails"
        THEN [dirs |-> ds, disk |-> dk, ret |-> Err("Io", <<>>)]
        ELSE IF io = "write_fails"
        THEN [dirs |-> made, disk |-> dk, ret |-> Err("Io", <<>>)]
        ELSE IF io = "write_cut_short"
        THEN [dirs |-> made, disk |-> fs_write(dk, path, Malformed),
              ret |-> Err("Io", <<>>)]
        ELSE [dirs |-> made,
              disk |-> fs_write(dk, path, to_string_pretty(s)),
              ret  |-> Ok(<<>>)]

\* Faulty variant of load_session: the deserialized data is returned as read
load_session_Unvalidated(path, dk, fs) ==
    IF path \notin DOMAIN dk THEN Err("Io", <<>>) ELSE from_str(dk[path])

\* load_session(path)
load_session(path, dk, fs) ==
    IF path \notin DOMAIN dk THEN Err("Io", <<>>)
    ELSE LET parsed == from_str(dk[path])
         IN  IF parsed.err # "Ok" THEN parsed
             ELSE LET checked == validate(parsed.val, fs)
                  IN  IF checked.err # "Ok" THEN checked
                      ELSE Ok(parsed.val)

----------------------------------------------------------------------------
(* Inputs of the calls.                                                    *)

Seed42 == U64FromNat(42)
SeedMax == <<255, 255, 255, 255, 255, 255, 255, 255>>

Paths == {"input.png", "missing.png"}

NewInputs ==
    {[asset_class |-> "ArenaProp", base_seed |-> Seed42,
      base_input |-> [input_type |-> "Drawn", source_path |-> "input.png"]],
     [asset_class |-> "Pillar", base_seed |-> SeedMax,
      base_input |-> [input_type |-> "Image", source_path |-> "input.png"]],
     [asset_class |-> "ArenaProp", base_seed |-> Seed42,
      base_input |-> [input_type |-> "Drawn", source_path |-> "missing.png"]]}

Uuids == {"uuid-a", "uuid-b"}

IntentTexts == {<<>>, <<" ", "\t">>, <<"a">>, <<" ", "b", " ">>}

\* (count, intent_text) of generate_variations / append_variations: every
\* count up to MaxCount, with an empty and a non-empty intent text
BatchInputs ==
    {[count |-> c, intent_text |-> IF c % 2 = 1 THEN <<>> ELSE <<"a">>] :
        c \in 0..MaxCount}

Deltas ==
    {[ParameterDeltaV1_default EXCEPT !.height_scale = <<Fin(150)>>],
     [ParameterDeltaV1_default EXCEPT !.height_scale = <<Fin(-200)>>,
                                      !.bevel_amount = <<NaN>>]}

Dims(h, w, d) == [height |-> h, width |-> w, depth |-> d]

ApprovalInputs ==
    {[dimensions |-> Dims(Fin(250), Fin(100), Fin(50)),
      export |-> ExportSettingsV1_default, user_label |-> <<>>],
     [dimensions |-> Dims(Fin(1), Fin(6000), Fin(60)),
      export |-> [pivot |-> "Center", collision |-> "None", generate_lods |-> FALSE],
      user_label |-> <<"pillar_a">>],
     [dimensions |-> Dims(Fin(250), Fin(0), Fin(50)),
      export |-> ExportSettingsV1_default, user_label |-> <<>>],
     [dimensions |-> Dims(Fin(-100), Fin(100), Fin(100)),
      export |-> ExportSettingsV1_default, user_label |-> <<>>],
     [dimensions |-> Dims(Fin(250), Fin(100), NaN),
      export |-> ExportSettingsV1_default, user_label |-> <<>>],
     [dimensions |-> Dims(PosInf, Fin(100), Fin(50)),
      export |-> ExportSettingsV1_default, user_label |-> <<>>]}

UnknownId == "var_9999_0"

\* The ids a caller can name: those of the current variations, those already
\* approved, and one that was never generated
CandidateIds(s) ==
    {s.variations[i].variation_id : i \in 1..Len(s.variations)}
    \cup {s.approvals[j].variation_id : j \in 1..Len(s.approvals)}
    \cup {UnknownId}

\* SessionV1 values as a caller or a file can hold them: a session built by
\* the operations, then fields overwritten
ForgeBase ==
    LET s0 == SessionV1_new("ArenaProp",
                            [input_type |-> "Drawn", source_path |-> "input.png"],
                            Seed42, "uuid-a", {"input.png"}).val
        s1 == push_intent(s0, <<"a">>).s
    IN  generate_variations(s1, 2, <<"a">>)

ZeroWidth == [height |-> Fin(250), width |-> Fin(0), depth |-> Fin(50)]
GoodDims == [height |-> Fin(250), width |-> Fin(100), depth |-> Fin(50)]

\* The approval at position i (from 1) of a forged approvals list
ForgedApproval(i, shape) ==
    LET vid == IF shape \in {"orphan", "orphan_bad"} THEN UnknownId
               ELSE ForgeBase.variations[i].variation_id
    IN  [approved_id  |-> FormatApprovedId(i - 1, vid),
         variation_id |-> vid,
         dimensions   |-> IF shape \in {"bad", "orphan_bad"} THEN ZeroWidth
                          ELSE GoodDims,
         export       |-> ExportSettingsV1_default,
         user_label   |-> <<>>]

ApprovalShapes ==
    {<<>>, <<"good">>, <<"orphan">>, <<"bad">>, <<"orphan_bad">>,
     <<"good", "orphan">>, <<"good", "bad">>,
     <<"bad", "orphan">>, <<"orphan", "bad">>}

SchemaVersions == {PARAM_SCHEMA_VERSION, "0.9"}
BevelValues == {Fin(10), Fin(9900), NaN}
VariationShapes == {"distinct", "duplicate"}

ForgedSessions ==
    {[ForgeBase EXCEPT
        !.schema_version = sch,
        !.base_input.source_path = src,
        !.base_params.bevel_amount.value = bev,
        !.variations = IF var = "duplicate" THEN @ \o <<@[1]>> ELSE @,
        !.approvals = [i \in 1..Len(app) |-> ForgedApproval(i, app[i])]] :
     sch \in SchemaVersions, src \in Paths, bev \in BevelValues,
     var \in VariationShapes, app \in ApprovalShapes}

SavePaths == {<<"session.forge.json">>, <<"target", "test_session.forge.json">>}
StalePath == <<"old.forge.json">>
GarbagePath == <<"notes.txt">>
LoadPaths == SavePaths \cup {StalePath, GarbagePath}

\* Inputs of the library functions (lib.rs)
MaxBatch == 5
AssetClasses == {"ArenaProp", "Pillar"}
BatchParams ==
    {ParameterSetV1_default} \cup {apply_delta(ParameterSetV1_default, d) : d \in Deltas}
BatchTexts == {<<>>, <<"a">>}

\* Indices around the fifth digit of the "{:04}" padding
LargeIndices == {9999, 10000, 10001, 100000}

U64Max == <<255, 255, 255, 255, 255, 255, 255, 255>>
\* 2^63
U64HighBit == <<0, 0, 0, 0, 0, 0, 0, 128>>
DeriveSeeds == {U64Zero, Seed42, U64Max, U64HighBit}
DeriveIndices ==
    {U64FromNat(i) : i \in 0..4} \cup {U64FromNat(10000), U64Max, U64HighBit}

F32Samples ==
    {Fin(-100), Fin(0), Fin(50), Fin(100), Fin(500), NaN, PosInf, NegInf}

\* Bounded values as a caller can hold them (the fields are public)
BoundedObjects ==
    {Bounded(v, r[1], r[2]) :
        v \in F32Samples,
        r \in {<<Fin(0), Fin(100)>>, <<Fin(-100), Fin(50)>>, <<NegInf, PosInf>>}}

\* Deltas as a caller of apply_delta can build them (every field is a public
\* Option<f32>): none, one or several fields, offsets that stay in the range,
\* leave it on either side, are infinite or NaN
LibDeltas ==
    {ParameterDeltaV1_default,
     [ParameterDeltaV1_default EXCEPT !.height_scale = <<Fin(150)>>],
     [ParameterDeltaV1_default EXCEPT !.height_scale = <<Fin(-20)>>,
                                      !.detail_density = <<Fin(30)>>],
     [ParameterDeltaV1_default EXCEPT !.bevel_amount = <<NaN>>],
     [ParameterDeltaV1_default EXCEPT !.extrusion_depth = <<PosInf>>,
                                      !.symmetry_break = <<NegInf>>,
                                      !.erosion_intensity = <<Fin(40)>>],
     [height_scale |-> <<Fin(10)>>, extrusion_depth |-> <<Fin(-500)>>,
      bevel_amount |-> <<Fin(5)>>, symmetry_break |-> <<Fin(70)>>,
      erosion_intensity |-> <<Fin(70)>>, detail_density |-> <<Fin(-5)>>]}

\* Parameter sets as the library produces them: the default set and the
\* sets apply_delta makes of it
LibParams ==
    {ParameterSetV1_default} \cup
    {apply_delta(ParameterSetV1_default, d) : d \in LibDeltas}

\* The fields a delta sets
PresentFields(delta) ==
    {ParamFields[i] : i \in {j \in 1..Len(ParamFields) : delta[ParamFields[j]] # <<>>}}

\* The delta that sets field f as delta does and nothing else
SingleField(delta, f) == [ParameterDeltaV1_default EXCEPT ![f] = delta[f]]

\* Every order in which the fields of S can be taken
RECURSIVE Orders(_)
Orders(S) ==
    IF S = {} THEN {<<>>}
    ELSE UNION {{<<f>> \o t : t \in Orders(S \ {f})} : f \in S}

\* p after one apply_delta call per field of order, each with the
\* single-field delta of that field
RECURSIVE ApplyInOrder(_, _, _)
ApplyInOrder(p, delta, order) ==
    IF order = <<>> THEN p
    ELSE ApplyInOrder(apply_delta(p, SingleField(delta, Head(order))),
                      delta, Tail(order))

\* Parameter sets as a caller of validate can hold them (the fields and
\* their values are public): values inside and outside the range, and NaN,
\* in the first, the third and the last field
ValidateParams ==
    {[ParameterSetV1_default EXCEPT !.height_scale.value = h,
                                    !.bevel_amount.value = b,
                                    !.detail_density.value = dd] :
        h \in {Fin(100), Fin(300), Fin(50)},
        b \in {Fin(10), Fin(-5), NaN, PosInf},
        dd \in {Fin(20), Fin(900), Fin(100)}}

\* Inputs of the project operations (project.rs)
ProjectNames == {<<" ">>, <<"a">>}

Aesthetic(g, r, w, sp) ==
    [geometry_complexity |-> g, realism |-> r, wear_tendency |-> w,
     symmetry_preference |-> sp]

\* impl Default for ProjectStyleProfile (the fields create_session and
\* validate read)
StyleDefault ==
    [aesthetic |-> Aesthetic(Fin(50), Fin(50), Fin(30), Fin(50)),
     pixel_density |-> Fin(50), edge_sharpness |-> Fin(50)]

\* ProjectStyleProfile::minecraft
StyleMinecraft ==
    [aesthetic |-> Aesthetic(Fin(20), Fin(0), Fin(20), Fin(70)),
     pixel_density |-> Fin(10), edge_sharpness |-> Fin(100)]

\* ProjectStyleProfile::dark_fantasy
StyleDarkFantasy ==
    [aesthetic |-> Aesthetic(Fin(70), Fin(80), Fin(80), Fin(30)),
     pixel_density |-> Fin(80), edge_sharpness |-> Fin(30)]

\* The presets, the two corners of the accepted range, and profiles
\* Project::new refuses
StyleProfiles ==
    {StyleDefault, StyleMinecraft, StyleDarkFantasy,
     [StyleDefault EXCEPT !.aesthetic = Aesthetic(Fin(0), Fin(0), Fin(0), Fin(0)),
                          !.edge_sharpness = Fin(0)],
     [StyleDefault EXCEPT !.aesthetic = Aesthetic(Fin(100), Fin(100), Fin(100), Fin(100)),
                          !.edge_sharpness = Fin(100)],
     [StyleDefault EXCEPT !.edge_sharpness = Fin(150)],
     [StyleDefault EXCEPT !.aesthetic.wear_tendency = NaN],
     [StyleDefault EXCEPT !.pixel_density = Fin(-10)]}

\* Parameter sets a caller can hand to set_class_override (the fields of
\* ParameterSetV1 and Bounded are public)
OverrideParams ==
    {ParameterSetV1_default,
     [ParameterSetV1_default EXCEPT !.height_scale.value = Fin(150)],
     [ParameterSetV1_default EXCEPT !.height_scale.value = Fin(500)],
     [ParameterSetV1_default EXCEPT !.bevel_amount.value = NaN]}

Call(op, args, ret) == [op |-> op, args |-> args, ret |-> ret]

----------------------------------------------------------------------------
(* Actions: one per call.                                                  *)

New ==
    /\ ~live
    /\ \E in \in NewInputs, session_id \in Uuids :
        LET r == SessionV1_new(in.asset_class, in.base_input, in.base_seed,
                               session_id, files)
        IN  /\ live' = (r.err = "Ok")
            /\ session' = IF r.err = "Ok" THEN r.val ELSE NoSession
            /\ last' = Call("new", in, [err |-> r.err])
    /\ UNCHANGED <<files, steps, dirs, disk, twin, project>>

PushIntent ==
    /\ live
    /\ steps < MaxOps
    /\ \E text \in IntentTexts :
        LET r == push_intent(session, text)
        IN  /\ session' = r.s
            /\ last' = Call("push_intent", [text |-> text], r.ret)
    /\ steps' = steps + 1
    /\ UNCHANGED <<live, files, dirs, disk, twin, project>>

ApplyBaseDelta ==
    /\ live
    /\ steps < MaxOps
    /\ \E delta \in Deltas :
        /\ session' = apply_base_delta(session, delta)
        /\ last' = Call("apply_base_delta", [delta |-> delta], Ok(<<>>))
    /\ steps' = steps + 1
    /\ UNCHANGED <<live, files, dirs, disk, twin, project>>

GenerateVariations ==
    /\ live
    /\ steps < MaxOps
    /\ \E in \in BatchInputs :
        /\ session' = generate_variations(session, in.count, in.intent_text)
        /\ last' = Call("generate_variations", in, Ok(<<>>))
    /\ steps' = steps + 1
    /\ UNCHANGED <<live, files, dirs, disk, twin, project>>

AppendVariations ==
    /\ live
    /\ steps < MaxOps
    /\ \E in \in BatchInputs :
        /\ session' = append_variations(session, in.count, in.intent_text)
        /\ last' = Call("append_variations", in, Ok(<<>>))
    /\ steps' = steps + 1
    /\ UNCHANGED <<live, files, dirs, disk, twin, project>>

ApproveVariation ==
    /\ live
    /\ steps < MaxOps
    /\ \E variation_id \in CandidateIds(session), in \in ApprovalInputs :
        LET r == approve_variation(session, variation_id, in.dimensions,
                                   in.export, in.user_label)
        IN  /\ session' = r.s
            /\ last' = Call("approve_variation",
                            [variation_id |-> variation_id,
                             dimensions |-> in.dimensions,
                             export |-> in.export,
                             user_label |-> in.user_label], r.ret)
    /\ steps' = steps + 1
    /\ UNCHANGED <<live, files, dirs, disk, twin, project>>

Validate ==
    /\ live
    /\ steps < MaxOps
    /\ last' = Call("validate", <<>>, validate(session, files))
    /\ steps' = steps + 1
    /\ UNCHANGED <<live, session, files, dirs, disk, twin, project>>

\* The environment deletes or creates a file
DeleteFile ==
    /\ steps < MaxOps
    /\ \E path \in files :
        /\ files' = files \ {path}
        /\ last' = Call("delete_file", [path |-> path], Ok(<<>>))
    /\ steps' = steps + 1
    /\ UNCHANGED <<live, session, dirs, disk, twin, project>>

SaveSession ==
    /\ live
    /\ steps < MaxPersistOps
    /\ \E path \in SavePaths, io \in IoOutcomes :
        LET r == save_session(path, session, files, dirs, disk, io)
        IN  /\ dirs' = r.dirs
            /\ disk' = r.disk
            /\ last' = Call("save_session", [path |-> path, io |-> io], r.ret)
    /\ steps' = steps + 1
    /\ UNCHANGED <<live, session, files, twin, project>>

LoadSession ==
    /\ steps < MaxPersistOps
    /\ \E path \in LoadPaths :
        last' = Call("load_session", [path |-> path],
                     load_session(path, disk, files))
    /\ steps' = steps + 1
    /\ UNCHANGED <<live, session, files, dirs, disk, twin, project>>

ValidateStored ==
    /\ steps < MaxPersistOps
    /\ Validate

DeleteInput ==
    /\ steps < MaxPersistOps
    /\ DeleteFile

\* The library functions, called on their own; they are pure, so one call
\* per behaviour shows every result
GenerateBatch ==
    /\ steps = 0
    /\ steps' = 1
    /\ \E base_session_id \in Uuids, asset_class \in AssetClasses,
          base_seed \in MemoSeeds, base_params \in BatchParams,
          intent_text \in BatchTexts, count \in 0..MaxBatch :
        last' = Call("generate_batch",
                     [base_session_id |-> base_session_id,
                      asset_class |-> asset_class, base_seed |-> base_seed,
                      base_params |-> base_params, intent_text |-> intent_text,
                      count |-> count],
                     generate_batch(base_session_id, asset_class, base_seed,
                                    base_params, intent_text, count))
    /\ UNCHANGED <<live, session, files, dirs, disk, twin, project>>

\* The specs the closure of generate_batch yields at two indices i < j of a
\* batch of more than j specs
GenerateSpecPair ==
    /\ steps = 0
    /\ steps' = 1
    /\ \E base_seed \in MemoSeeds, i \in LargeIndices, j \in LargeIndices :
        /\ i < j
        /\ last' = Call("generate_batch_closure",
                        [base_seed |-> base_seed, i |-> i, j |-> j],
                        <<GenerateSpec("uuid-a", "ArenaProp", base_seed,
                                       ParameterSetV1_default, <<"a">>, i),
                          GenerateSpec("uuid-a", "ArenaProp", base_seed,
                                       ParameterSetV1_default, <<"a">>, j)>>)
    /\ UNCHANGED <<live, session, files, dirs, disk, twin, project>>

Derive ==
    /\ steps = 0
    /\ steps' = 1
    /\ \E seed \in DeriveSeeds, index \in DeriveIndices :
        last' = Call("derive", [seed |-> seed, index |-> index],
                     derive(seed, index))
    /\ UNCHANGED <<live, session, files, dirs, disk, twin, project>>

BoundedNew ==
    /\ steps = 0
    /\ steps' = 1
    /\ \E value \in F32Samples, min \in F32Samples, max \in F32Samples :
        last' = Call("Bounded::new",
                     [value |-> value, min |-> min, max |-> max],
                     Bounded_new(value, min, max))
    /\ UNCHANGED <<live, session, files, dirs, disk, twin, project>>

BoundedSet ==
    /\ steps = 0
    /\ steps' = 1
    /\ \E b \in BoundedObjects, new_value \in F32Samples :
        last' = Call("Bounded::set", [self |-> b, new_value |-> new_value],
                     set(b, new_value))
    /\ UNCHANGED <<live, session, files, dirs, disk, twin, project>>

\* clamped() called on a parameter and once more on what it returned
Clamped ==
    /\ steps = 0
    /\ steps' = 1
    /\ \E b \in BoundedObjects :
        last' = Call("Bounded::clamped", [self |-> b],
                     [once |-> clamped(b), twice |-> clamped(clamped(b))])
    /\ UNCHANGED <<live, session, files, dirs, disk, twin, project>>

\* apply_delta called on a parameter set; ret is the set afterwards (the
\* method returns nothing)
ApplyDelta ==
    /\ steps = 0
    /\ steps' = 1
    /\ \E p \in LibParams, delta \in LibDeltas :
        last' = Call("apply_delta", [self |-> p, delta |-> delta],
                     apply_delta(p, delta))
    /\ UNCHANGED <<live, session, files, dirs, disk, twin, project>>

\* A delta applied in one call, and field by field in some order
ApplyDeltaInParts ==
    /\ steps = 0
    /\ steps' = 1
    /\ \E p \in LibParams, delta \in LibDeltas :
        \E order \in Orders(PresentFields(delta)) :
            last' = Call("apply_delta_in_parts",
                         [self |-> p, delta |-> delta, order |-> order],
                         [whole |-> apply_delta(p, delta),
                          parts |-> ApplyInOrder(p, delta, order)])
    /\ UNCHANGED <<live, session, files, dirs, disk, twin, project>>

\* Two deltas that set no field in common, applied in both orders
ApplyDeltaPair ==
    /\ steps = 0
    /\ steps' = 1
    /\ \E p \in LibParams, d1 \in LibDeltas, d2 \in LibDeltas :
        /\ PresentFields(d1) \cap PresentFields(d2) = {}
        /\ last' = Call("apply_delta_pair",
                        [self |-> p, d1 |-> d1, d2 |-> d2],
                        [d1_d2 |-> apply_delta(apply_delta(p, d1), d2),
                         d2_d1 |-> apply_delta(apply_delta(p, d2), d1)])
    /\ UNCHANGED <<live, session, files, dirs, disk, twin, project>>

\* ParameterSetV1::validate called on a parameter set (it takes &self)
ParamsValidate ==
    /\ steps = 0
    /\ steps' = 1
    /\ \E p \in ValidateParams \cup LibParams :
        last' = Call("ParameterSetV1::validate", [self |-> p],
                     params_validate(p))
    /\ UNCHANGED <<live, session, files, dirs, disk, twin, project>>

\* The operations of a Project
ProjectNew ==
    /\ project = NoProject
    /\ \E name \in ProjectNames, style \in StyleProfiles, id \in {"uuid-p"} :
        LET r == Project_new(name, style, id)
        IN  /\ project' = IF r.err = "Ok" THEN r.val ELSE project
            /\ last' = Call("Project::new",
                            [name |-> name, style_profile |-> style],
                            IF r.err = "Ok" THEN Ok(<<>>) ELSE r)
    /\ UNCHANGED <<live, session, files, steps, dirs, disk, twin>>

SetClassOverride ==
    /\ project # NoProject
    /\ steps < MaxProjectOps
    /\ \E asset_class \in AssetClasses, params \in OverrideParams :
        /\ project' = set_class_override(project, asset_class, params)
        /\ last' = Call("set_class_override",
                        [asset_class |-> asset_class, params |-> params],
                        Ok(<<>>))
    /\ steps' = steps + 1
    /\ UNCHANGED <<live, session, files, dirs, disk, twin>>

ClearClassOverride ==
    /\ project # NoProject
    /\ steps < MaxProjectOps
    /\ \E asset_class \in AssetClasses :
        /\ project' = clear_class_override(project, asset_class)
        /\ last' = Call("clear_class_override",
                        [asset_class |-> asset_class], Ok(<<>>))
    /\ steps' = steps + 1
    /\ UNCHANGED <<live, session, files, dirs, disk, twin>>

CreateSession ==
    /\ project # NoProject
    /\ steps < MaxProjectOps
    /\ \E asset_class \in AssetClasses, path \in Paths, session_id \in Uuids :
        LET base_input == [source_path |-> path, input_type |-> "Image"]
            r == create_session(project, asset_class, base_input, Seed42,
                                session_id, files)
        IN  /\ project' = r.p
            /\ live' = (live \/ r.ret.err = "Ok")
            /\ session' = IF r.ret.err = "Ok" THEN r.ret.val ELSE session
            /\ last' = Call("create_session",
                            [asset_class |-> asset_class,
                             base_input |-> base_input,
                             had_override |->
                                DebugKey(asset_class) \in DOMAIN project.class_overrides],
                            r.ret)
    /\ steps' = steps + 1
    /\ UNCHANGED <<files, dirs, disk, twin>>

ProjectValidate ==
    /\ project # NoProject
    /\ steps < MaxProjectOps
    /\ last' = Call("Project::validate", <<>>, project_validate(project))
    /\ steps' = steps + 1
    /\ UNCHANGED <<live, session, files, dirs, disk, twin, project>>

\* Two sessions constructed from the same arguments (each call of
\* Uuid::new_v4() returns its own identifier) and given the same calls
TwinNew ==
    /\ ~live
    /\ \E in \in NewInputs, id_a \in Uuids, id_b \in Uuids :
        LET a == SessionV1_new(in.asset_class, in.base_input, in.base_seed,
                               id_a, files)
            b == SessionV1_new(in.asset_class, in.base_input, in.base_seed,
                               id_b, files)
        IN  /\ a.err = "Ok"
            /\ live' = TRUE
            /\ session' = a.val
            /\ twin' = b.val
            /\ last' = Call("new", in, [err |-> a.err])
    /\ UNCHANGED <<files, steps, dirs, disk, project>>

TwinPushIntent ==
    /\ live
    /\ steps < MaxTwinOps
    /\ \E text \in IntentTexts :
        /\ session' = push_intent(session, text).s
        /\ twin' = push_intent(twin, text).s
        /\ last' = Call("push_intent", [text |-> text],
                        push_intent(session, text).ret)
    /\ steps' = steps + 1
    /\ UNCHANGED <<live, files, dirs, disk, project>>

TwinApplyBaseDelta ==
    /\ live
    /\ steps < MaxTwinOps
    /\ \E delta \in Deltas :
        /\ session' = apply_base_delta(session, delta)
        /\ twin' = apply_base_delta(twin, delta)
        /\ last' = Call("apply_base_delta", [delta |-> delta], Ok(<<>>))
    /\ steps' = steps + 1
    /\ UNCHANGED <<live, files, dirs, disk, project>>

TwinGenerateVariations ==
    /\ live
    /\ steps < MaxTwinOps
    /\ \E in \in BatchInputs :
        /\ session' = generate_variations(session, in.count, in.intent_text)
        /\ twin' = generate_variations(twin, in.count, in.intent_text)
        /\ last' = Call("generate_variations", in, Ok(<<>>))
    /\ steps' = steps + 1
    /\ UNCHANGED <<live, files, dirs, disk, project>>

TwinAppendVariations ==
    /\ live
    /\ steps < MaxTwinOps
    /\ \E in \in BatchInputs :
        /\ session' = append_variations(session, in.count, in.intent_text)
        /\ twin' = append_variations(twin, in.count, in.intent_text)
        /\ last' = Call("append_variations", in, Ok(<<>>))
    /\ steps' = steps + 1
    /\ UNCHANGED <<live, files, dirs, disk, project>>

TwinApproveVariation ==
    /\ live
    /\ steps < MaxTwinOps
    /\ \E variation_id \in CandidateIds(session), in \in ApprovalInputs :
        /\ session' = approve_variation(session, variation_id, in.dimensions,
                                        in.export, in.user_label).s
        /\ twin' = approve_variation(twin, variation_id, in.dimensions,
                                     in.export, in.user_label).s
        /\ last' = Call("approve_variation",
                        [variation_id |-> variation_id,
                         dimensions |-> in.dimensions,
                         export |-> in.export,
                         user_label |-> in.user_label],
                        approve_variation(session, variation_id, in.dimensions,
                                          in.export, in.user_label).ret)
    /\ steps' = steps + 1
    /\ UNCHANGED <<live, files, dirs, disk, project>>

Init ==
    /\ live = FALSE
    /\ session = NoSession
    /\ files = {"input.png"}
    /\ last = Call("none", <<>>, Ok(<<>>))
    /\ steps = 0
    /\ dirs = {}
    /\ disk = <<>>
    /\ twin = NoSession
    /\ project = NoProject

Next ==
    \/ New
    \/ PushIntent
    \/ ApplyBaseDelta
    \/ GenerateVariations
    \/ AppendVariations
    \/ ApproveVariation
    \/ Validate
    \/ DeleteFile

Spec == Init /\ [][Next]_vars

\* The library functions on their own: no session exists
NextLib ==
    \/ GenerateBatch
    \/ GenerateSpecPair
    \/ Derive
    \/ BoundedNew
    \/ BoundedSet
    \/ Clamped
    \/ ApplyDelta
    \/ ApplyDeltaInParts
    \/ ApplyDeltaPair
    \/ ParamsValidate

SpecLib == Init /\ [][NextLib]_vars

\* Two sessions side by side
NextTwin ==
    \/ TwinNew
    \/ TwinPushIntent
    \/ TwinApplyBaseDelta
    \/ TwinGenerateVariations
    \/ TwinAppendVariations
    \/ TwinApproveVariation

SpecTwin == Init /\ [][NextTwin]_vars

\* A project and the sessions created within it
NextProject ==
    \/ ProjectNew
    \/ SetClassOverride
    \/ ClearClassOverride
    \/ CreateSession
    \/ ProjectValidate

SpecProject == Init /\ [][NextProject]_vars

\* Persistence: the caller holds any SessionV1 value (every field is public
\* and a file may come from another version of the program), an older
\* session file and a file that is no session lie on the disk
InitPersist ==
    /\ live = TRUE
    /\ session \in ForgedSessions
    /\ files = {"input.png"}
    /\ last = Call("none", <<>>, Ok(<<>>))
    /\ steps = 0
    /\ dirs = {}
    /\ disk = fs_write(fs_write(<<>>, StalePath, to_string_pretty(session)),
                       GarbagePath, Malformed)
    /\ twin = NoSession
    /\ project = NoProject

NextPersist ==
    \/ SaveSession
    \/ LoadSession
    \/ ValidateStored
    \/ DeleteInput

SpecPersist == InitPersist /\ [][NextPersist]_vars

----------------------------------------------------------------------------
(* Properties.                                                             *)

\* The step is a call of `op` on the session
Called(op) == steps' = steps + 1 /\ last'.op = op

VariationIds(s) == {s.variations[i].variation_id : i \in 1..Len(s.variations)}
ApprovedIds(s) == {s.approvals[j].variation_id : j \in 1..Len(s.approvals)}

\* A dimension that is finite and strictly positive
PositiveFinite(x) == x.k = "fin" /\ x.v > 0
AllPositiveFinite(d) ==
    PositiveFinite(d.height) /\ PositiveFinite(d.width) /\ PositiveFinite(d.depth)

DistinctVariationIds(s) ==
    \A i, j \in 1..Len(s.variations) :
        i # j => s.variations[i].variation_id # s.variations[j].variation_id

DistinctApprovedVariations(s) ==
    \A i, j \in 1..Len(s.approvals) :
        i # j => s.approvals[i].variation_id # s.approvals[j].variation_id

\* C1 as stated: every approve_variation call whose variation_id is already
\* approved fails with DuplicateApproval.
C1_DuplicateAlways ==
    [][(Called("approve_variation")
            /\ last'.args.variation_id \in ApprovedIds(session))
        => last'.ret.err = "DuplicateApproval"]_vars

\* C1 as amended: an approve_variation call whose variation_id is already
\* approved always fails and changes nothing; the failure is DuplicateApproval
\* when the dimensions are valid and the id is among the current variations
\* (InvalidDimensions and UnknownVariation are tested first).  Hence no two
\* approvals of a reachable session share a variation_id.
C1_DuplicateRejected ==
    /\ [](live => DistinctApprovedVariations(session))
    /\ [][(Called("approve_variation")
                /\ last'.args.variation_id \in ApprovedIds(session))
            => /\ last'.ret.err # "Ok"
               /\ session' = session
               /\ (AllPositiveFinite(last'.args.dimensions)
                     /\ last'.args.variation_id \in VariationIds(session))
                    => last'.ret.err = "DuplicateApproval"]_vars

\* C1 witness: a second approval of an approved id was refused as a duplicate
C1_Witness ==
    /\ live
    /\ last.op = "approve_variation"
    /\ last.ret.err = "DuplicateApproval"
    /\ last.args.variation_id \in ApprovedIds(session)

\* C2: with valid dimensions approve_variation fails with UnknownVariation
\* exactly when no current variation carries the id, and every approval that
\* is appended names an id of the variations current at that call.
C2_UnknownVariation ==
    [][(Called("approve_variation") /\ AllPositiveFinite(last'.args.dimensions))
        => /\ (last'.ret.err = "UnknownVariation")
                <=> (last'.args.variation_id \notin VariationIds(session))
           /\ \A j \in 1..Len(session'.approvals) :
                j > Len(session.approvals)
                    => session'.approvals[j].variation_id \in VariationIds(session)]_vars

\* C2 witness: an id outside a non-empty current batch was refused
C2_Witness ==
    /\ live
    /\ last.op = "approve_variation"
    /\ last.ret.err = "UnknownVariation"
    /\ AllPositiveFinite(last.args.dimensions)
    /\ Len(session.variations) > 0

\* C3 as stated: after generate_variations on a session that holds approvals
\* and whose base input resolves, validate() does not fail with
\* OrphanedApproval.
C3_RegenerationKeepsApprovalsValid ==
    (/\ live
     /\ last.op = "generate_variations"
     /\ Len(session.approvals) >= 1
     /\ session.base_input.source_path \in files)
        => validate(session, files).err # "OrphanedApproval"

\* C4 as stated: the variation ids of a session built by session operations
\* are pairwise distinct and validate() never fails with DuplicateVariation.
C4_VariationIdsDistinct ==
    live => /\ DistinctVariationIds(session)
            /\ validate(session, files).err # "DuplicateVariation"

\* C5 as stated: append_variations on a session holding n variations
\* generates the specs of batch indices n, n+1, ..., n+count-1.
C5_AppendContinuesIndices ==
    [][Called("append_variations")
        => LET n == Len(session.variations)
               count == last'.args.count
           IN  /\ Len(session'.variations) = n + count
               /\ \A k \in 1..count :
                    LET si == SeedAndIdOf(session.base_seed, n + k - 1)
                    IN  /\ session'.variations[n + k].seed = si.seed
                        /\ session'.variations[n + k].variation_id
                                = si.variation_id]_vars

\* C6: append_variations keeps the existing specs as a prefix, adds exactly
\* count specs after them, and leaves intent_history, approvals and
\* base_params unchanged.
C6_AppendKeepsPrefix ==
    [][Called("append_variations")
        => LET n == Len(session.variations)
           IN  /\ Len(session'.variations) = n + last'.args.count
               /\ SubSeq(session'.variations, 1, n) = session.variations
               /\ session'.intent_history = session.intent_history
               /\ session'.approvals = session.approvals
               /\ session'.base_params = session.base_params]_vars

\* C6 witness: specs were appended after a non-empty collection
C6_Witness ==
    /\ live
    /\ last.op = "append_variations"
    /\ last.args.count >= 1
    /\ Len(session.variations) > last.args.count

\* C7: a successful approve_variation appends exactly one ApprovedDesign
\* carrying the given variation_id, dimensions, export settings and label,
\* returns approved_id = "appr_" + k + "_" + variation_id with k the number
\* of approvals held before the call, and leaves variations, intent_history
\* and base_params unchanged.
C7_ApproveAppendsOne ==
    [][(Called("approve_variation") /\ last'.ret.err = "Ok")
        => LET a == last'.args
               k == Len(session.approvals)
               id == "appr_" \o ToString(k) \o "_" \o a.variation_id
           IN  /\ session'.approvals =
                      Append(session.approvals,
                             [approved_id  |-> id,
                              variation_id |-> a.variation_id,
                              dimensions   |-> a.dimensions,
                              export       |-> a.export,
                              user_label   |-> a.user_label])
               /\ last'.ret.val = id
               /\ session'.variations = session.variations
               /\ session'.intent_history = session.intent_history
               /\ session'.base_params = session.base_params]_vars

\* C7 witness: a second approval, with a label, succeeded
C7_Witness ==
    /\ live
    /\ last.op = "approve_variation"
    /\ last.ret.err = "Ok"
    /\ last.args.user_label # <<>>
    /\ Len(session.approvals) = 2

\* C8: approve_variation fails with InvalidDimensions whenever a dimension is
\* not strictly positive or not finite, so every stored approval has three
\* finite, strictly positive dimensions and validate() never fails with
\* InvalidDimensions.
C8_InvalidDimensionsRejected ==
    /\ (last.op = "approve_variation" /\ ~AllPositiveFinite(last.args.dimensions))
         => last.ret.err = "InvalidDimensions"
    /\ live => /\ \A j \in 1..Len(session.approvals) :
                    AllPositiveFinite(session.approvals[j].dimensions)
               /\ validate(session, files).err # "InvalidDimensions"

\* C8 witness: a call with an infinite dimension was refused on a session that
\* holds an approval
C8_Witness ==
    /\ live
    /\ last.op = "approve_variation"
    /\ last.ret.err = "InvalidDimensions"
    /\ last.args.dimensions.height.k = "inf"
    /\ Len(session.approvals) >= 1

AllWhitespace(t) == \A i \in 1..Len(t) : t[i] \in Whitespace

\* C10: push_intent fails with EmptyIntent exactly when the text is empty
\* after trimming, and then appends nothing; for any other text it succeeds.
C10_EmptyIntent ==
    [][Called("push_intent")
        => /\ (last'.ret.err = "EmptyIntent") <=> AllWhitespace(last'.args.text)
           /\ last'.ret.err \in {"EmptyIntent", "Ok"}
           /\ last'.ret.err = "EmptyIntent" => session' = session]_vars

\* C10 witness: a text of white space only was refused
C10_Witness ==
    /\ live
    /\ last.op = "push_intent"
    /\ last.ret.err = "EmptyIntent"
    /\ last.args.text # <<>>

IsPrefix(a, b) == Len(a) <= Len(b) /\ SubSeq(b, 1, Len(a)) = a

\* C11: intent_history and approvals are append-only: over every call on the
\* session the contents before the call are an unchanged prefix of the
\* contents after it; regenerating variations removes or alters no approval.
C11_AppendOnly ==
    [][live => /\ IsPrefix(session.intent_history, session'.intent_history)
               /\ IsPrefix(session.approvals, session'.approvals)]_vars

\* C11 witness: a regeneration discarded the approved variation and the
\* approval is still held
C11_Witness ==
    /\ live
    /\ last.op = "generate_variations"
    /\ Len(session.approvals) >= 1
    /\ Len(session.intent_history) >= 1
    /\ session.approvals[1].variation_id \notin VariationIds(session)

\* C12: generate_variations(count, intent_text) replaces the collection:
\* afterwards variations is exactly generate_batch(session_id, asset_class,
\* base_seed, current base_params, intent_text, count), of length count; the
\* call never fails and adds no entry to intent_history.
C12_GenerateReplaces ==
    [][Called("generate_variations")
        => /\ session'.variations =
                generate_batch(session.session_id, session.asset_class,
                               session.base_seed, session.base_params,
                               last'.args.intent_text, last'.args.count)
           /\ Len(session'.variations) = last'.args.count
           /\ last'.ret.err = "Ok"
           /\ session'.intent_history = session.intent_history]_vars

\* C12 witness: a batch with an empty intent text replaced an earlier batch
\* (one of whose specs had been approved)
C12_Witness ==
    /\ live
    /\ last.op = "generate_variations"
    /\ last.args.intent_text = <<>>
    /\ last.args.count >= 1
    /\ Len(session.approvals) >= 1

\* C13: apply_base_delta changes only base_params: the specs already in
\* variations keep their params snapshot and every other field, and
\* intent_history and approvals are unchanged; the specs generated by a later
\* generate_variations / append_variations carry the base_params current at
\* that call.
C13_DeltaOnlyBaseParams ==
    /\ [][Called("apply_base_delta")
            => /\ session' = [session EXCEPT !.base_params = session'.base_params]
               /\ session'.base_params =
                    apply_delta(session.base_params, last'.args.delta)]_vars
    /\ [][(Called("generate_variations") \/ Called("append_variations"))
            => \A i \in 1..Len(session'.variations) :
                 (last'.op = "generate_variations" \/ i > Len(session.variations))
                    => session'.variations[i].params = session.base_params]_vars

\* C13 witness: a delta changed base_params while a spec keeps the old snapshot
C13_Witness ==
    /\ live
    /\ last.op = "apply_base_delta"
    /\ Len(session.variations) >= 1
    /\ session.variations[1].params # session.base_params

\* C20: lifecycle Empty -> Previewing -> Reviewed: approve_variation never
\* succeeds while variations is empty, and variations only becomes non-empty
\* by a generate_variations or append_variations call with count >= 1, so the
\* first successful approval is preceded by such a call.
C20_ApprovalNeedsBatch ==
    /\ [][(Called("approve_variation") /\ last'.ret.err = "Ok")
            => Len(session.variations) >= 1]_vars
    /\ [][(live' /\ Len(session'.variations) >= 1
                 /\ (~live \/ Len(session.variations) = 0))
            => /\ last'.op \in {"generate_variations", "append_variations"}
               /\ last'.args.count >= 1]_vars
    /\ [][(~live /\ live') => Len(session'.variations) = 0
                              /\ Len(session'.approvals) = 0]_vars

\* C20 witness: the first approval has just succeeded
C20_Witness ==
    /\ live
    /\ last.op = "approve_variation"
    /\ last.ret.err = "Ok"
    /\ Len(session.approvals) = 1
    /\ Len(session.variations) >= 1

\* The six conditions of a consistent session
SchemaVersionMatches(s) == s.schema_version = PARAM_SCHEMA_VERSION
BaseInputResolves(s, fs) == s.base_input.source_path \in fs
WithinBounds(b) ==
    b.value.k # "nan" /\ ~FLt(b.value, b.min) /\ ~FGt(b.value, b.max)
AllWithinBounds(p) ==
    \A i \in 1..Len(ParamFields) : WithinBounds(p[ParamFields[i]])
Orphaned(s, i) == s.approvals[i].variation_id \notin VariationIds(s)
BadDimensions(s, i) == ~AllPositiveFinite(s.approvals[i].dimensions)
NoOrphanedApproval(s) == \A i \in 1..Len(s.approvals) : ~Orphaned(s, i)
AllApprovalDimensionsValid(s) ==
    \A i \in 1..Len(s.approvals) : ~BadDimensions(s, i)

SixConditions(s, fs) ==
    /\ SchemaVersionMatches(s)
    /\ BaseInputResolves(s, fs)
    /\ AllWithinBounds(s.base_params)
    /\ DistinctVariationIds(s)
    /\ NoOrphanedApproval(s)
    /\ AllApprovalDimensionsValid(s)

\* C14 as stated: validate() returns Ok exactly when the six conditions hold
\* (schema version, base input, every base_params field within its bounds,
\* distinct variation ids, no orphaned approval, valid approval dimensions),
\* and it leaves the session as it was.
C14_ValidateExactlySixConditions ==
    last.op = "validate"
        => (last.ret.err = "Ok") <=> SixConditions(session, files)

\* C15 as stated: validate() reports the error of the first condition that
\* fails, in the order SchemaVersionMismatch, InvalidPath, InvalidParameters,
\* DuplicateVariation, then the approval checks.
C15_FirstFailingCheck ==
    last.op = "validate"
        => last.ret.err =
            IF ~SchemaVersionMatches(session) THEN "SchemaVersionMismatch"
            ELSE IF ~BaseInputResolves(session, files) THEN "InvalidPath"
            ELSE IF ~AllWithinBounds(session.base_params) THEN "InvalidParameters"
            ELSE IF ~DistinctVariationIds(session) THEN "DuplicateVariation"
            ELSE IF ~(NoOrphanedApproval(session)
                        /\ AllApprovalDimensionsValid(session))
            THEN IF last.ret.err \in {"OrphanedApproval", "InvalidDimensions"}
                 THEN last.ret.err ELSE "an approval error"
            ELSE "Ok"

\* C16 as stated: once the first four checks pass, a session holding an
\* orphaned approval and another approval with invalid dimensions fails with
\* OrphanedApproval, whatever their order.
C16_OrphanBeforeDimensions ==
    (/\ last.op = "validate"
     /\ last.ret.err \in {"OrphanedApproval", "InvalidDimensions"}
     /\ \E i, j \in 1..Len(session.approvals) :
            i # j /\ Orphaned(session, i) /\ BadDimensions(session, j))
        => last.ret.err = "OrphanedApproval"

\* The first approval, in list order, that is orphaned or has invalid
\* dimensions; 0 if there is none
FirstFaultyApproval(s) ==
    LET faulty == {i \in 1..Len(s.approvals) :
                     Orphaned(s, i) \/ BadDimensions(s, i)}
    IN  IF faulty = {} THEN 0
        ELSE CHOOSE i \in faulty : \A k \in faulty : i <= k

\* C16 amended: the approvals are tested one after the other in list order,
\* each for its reference and then for its dimensions: once the first four
\* checks pass, validate() fails with the error of the first faulty approval
\* - OrphanedApproval (naming it) if that one is orphaned, else
\* InvalidDimensions - and returns Ok if no approval is faulty.
C16_ApprovalByApproval ==
    (/\ last.op = "validate"
     /\ last.ret.err \in {"Ok", "OrphanedApproval", "InvalidDimensions"})
        => LET k == FirstFaultyApproval(session)
           IN  IF k = 0 THEN last.ret.err = "Ok"
               ELSE IF Orphaned(session, k)
               THEN last.ret =
                      Err("OrphanedApproval",
                          [approved_id  |-> session.approvals[k].approved_id,
                           variation_id |-> session.approvals[k].variation_id])
               ELSE last.ret = Err("InvalidDimensions", <<>>)

\* C16 witness: validate() answered InvalidDimensions for a session whose
\* first approval has invalid dimensions and whose second one is orphaned
C16_Witness ==
    /\ last.op = "validate"
    /\ last.ret.err = "InvalidDimensions"
    /\ Len(session.approvals) = 2
    /\ BadDimensions(session, 1) /\ ~Orphaned(session, 1)
    /\ Orphaned(session, 2)

\* C17: save_session validates before touching the file system: if
\* validate() fails, save returns that error and neither creates a directory
\* nor writes or changes a file; otherwise the parent directories are
\* created before the file is written, so a file is only written below
\* existing parents and nothing is written when creating them fails; on Ok
\* the file holds the whole document.
C17_ValidateBeforeWrite ==
    [][Called("save_session")
        => LET checked == validate(session, files)
               path == last'.args.path
               parent == SubSeq(path, 1, Len(path) - 1)
           IN  /\ checked.err # "Ok"
                    => last'.ret = checked /\ dirs' = dirs /\ disk' = disk
               /\ (dirs' # dirs \/ disk' # disk) => checked.err = "Ok"
               /\ disk' # disk => (parent = <<>> \/ parent \in dirs')
               /\ (parent # <<>> /\ last'.args.io = "mkdir_fails")
                    => dirs' = dirs /\ disk' = disk
               /\ last'.ret.err = "Ok"
                    => /\ checked.err = "Ok"
                       /\ disk'[path] = to_string_pretty(session)
                       /\ \A q \in DOMAIN disk : q # path => disk'[q] = disk[q]]_vars

\* C17 witness: a save refused by the validator, with nothing created
C17_Witness ==
    /\ last.op = "save_session"
    /\ last.args.io = "ok"
    /\ last.ret.err = "OrphanedApproval"
    /\ dirs = {}
    /\ DOMAIN disk = {StalePath, GarbagePath}

\* C18: load_session returns a session only if validate() succeeds on the
\* deserialized data, and then returns that data; a file that deserializes
\* to a session with another schema_version makes load fail with
\* SchemaVersionMismatch, the result carrying the two versions and no session.
C18_LoadValidates ==
    last.op = "load_session"
        => LET path == last.args.path
           IN  /\ last.ret.err = "Ok"
                    => /\ path \in DOMAIN disk
                       /\ from_str(disk[path]) = Ok(last.ret.val)
                       /\ validate(last.ret.val, files).err = "Ok"
               /\ (/\ path \in DOMAIN disk
                   /\ from_str(disk[path]).err = "Ok"
                   /\ from_str(disk[path]).val.schema_version # PARAM_SCHEMA_VERSION)
                    => last.ret =
                         Err("SchemaVersionMismatch",
                             [expected |-> PARAM_SCHEMA_VERSION,
                              got |-> disk[path].doc.schema_version])

\* C18 witness: the load of a session file of another schema version, all
\* of whose other contents are consistent
C18_Witness ==
    /\ last.op = "load_session"
    /\ last.ret.err = "SchemaVersionMismatch"
    /\ last.ret.val.got = "0.9"
    /\ validate([session EXCEPT !.schema_version = PARAM_SCHEMA_VERSION],
                files).err = "Ok"

\* C19 as stated: for every session s on which validate() succeeds,
\* save_session(path, s) succeeds (the file system answering) and
\* load_session(path) then returns a session equal to s in all fields, on
\* which validate() succeeds too.
C19_RoundTrip ==
    /\ (/\ last.op = "save_session"
        /\ last.args.io = "ok"
        /\ validate(session, files).err = "Ok")
            => /\ last.ret.err = "Ok"
               /\ disk[last.args.path] = to_string_pretty(session)
    /\ (/\ last.op = "load_session"
        /\ last.args.path \in SavePaths \cap DOMAIN disk
        /\ disk[last.args.path] = to_string_pretty(session)
        /\ validate(session, files).err = "Ok")
            => /\ last.ret = Ok(session)
               /\ validate(last.ret.val, files).err = "Ok"

\* The batch sizes a caller may pick to regenerate the variations
RecoveryCounts == 0..MaxCount

\* C21: referential errors are recoverable: in every state reached through
\* the session operations in which validate() fails with DuplicateVariation
\* or OrphanedApproval, some generate_variations call leads to a session on
\* which validate() succeeds.
C21_ReferentialErrorsRecoverable ==
    (live /\ validate(session, files).err \in {"DuplicateVariation",
                                               "OrphanedApproval"})
        => \E count \in RecoveryCounts, text \in IntentTexts :
              validate(generate_variations(session, count, text), files).err = "Ok"

\* C21 witness: validate() has just reported a referential error on a
\* session holding an approval, and a regeneration repairs it
C21_Witness ==
    /\ live
    /\ last.op = "validate"
    /\ last.ret.err \in {"OrphanedApproval", "DuplicateVariation"}
    /\ Len(session.approvals) >= 1
    /\ \E count \in RecoveryCounts :
          validate(generate_variations(session, count, <<"a">>), files).err = "Ok"

\* C22: SessionV1::new fails with InvalidPath, returning no session, when
\* the source_path of the base input does not exist; otherwise it returns a
\* session in the Empty state: schema_version is the engine constant,
\* base_params the default set, base_seed, asset_class and base_input the
\* given ones, intent_history, variations and approvals empty.
C22_NewSession ==
    last.op = "new"
        => IF last.args.base_input.source_path \notin files
           THEN /\ last.ret.err = "InvalidPath"
                /\ ~live
                /\ session = NoSession
           ELSE /\ last.ret.err = "Ok"
                /\ live
                /\ session.schema_version = "1.0"
                /\ session.base_params = ParameterSetV1_default
                /\ session.base_seed = last.args.base_seed
                /\ session.asset_class = last.args.asset_class
                /\ session.base_input = last.args.base_input
                /\ session.session_id \in Uuids
                /\ session.intent_history = <<>>
                /\ session.variations = <<>>
                /\ session.approvals = <<>>
                /\ session.notes = <<>>

\* C22 witness: a construction refused for a missing base input
C22_Witness ==
    /\ last.op = "new"
    /\ last.ret.err = "InvalidPath"
    /\ ~live

\* The fixed range of each field (ParameterSetV1::default)
DefaultRange(p, f) ==
    /\ p[f].min = ParameterSetV1_default[f].min
    /\ p[f].max = ParameterSetV1_default[f].max

\* C23 as stated: in every state reached from SessionV1::new through the
\* session operations, with arbitrary deltas, every base_params field
\* satisfies min <= value <= max, min and max being the field's default
\* range, and neither validate reports a parameter out of range.
C23_ParamsStayInRange ==
    live => /\ \A i \in 1..Len(ParamFields) :
                 /\ WithinBounds(session.base_params[ParamFields[i]])
                 /\ DefaultRange(session.base_params, ParamFields[i])
            /\ params_validate(session.base_params).err = "Ok"
            /\ validate(session, files).err # "InvalidParameters"

PairwiseDistinctIds(specs) ==
    \A m, n \in 1..Len(specs) :
        m # n => specs[m].variation_id # specs[n].variation_id

\* C24: generate_batch(.., count = N) returns exactly N specs, in index
\* order, with pairwise distinct variation_ids, for every base seed and
\* every N; the ids of two different indices also differ where the index
\* has five or more digits and the padding no longer fixes the width.
C24_BatchOfDistinctIds ==
    /\ last.op = "generate_batch"
        => /\ Len(last.ret) = last.args.count
           /\ \A n \in 1..Len(last.ret) :
                last.ret[n].seed = derive(last.args.base_seed, U64FromNat(n - 1))
           /\ PairwiseDistinctIds(last.ret)
    /\ last.op = "generate_batch_closure"
        => /\ PairwiseDistinctIds(last.ret)
           /\ last.ret[1].seed = derive(last.args.base_seed, U64FromNat(last.args.i))
           /\ last.ret[2].seed = derive(last.args.base_seed, U64FromNat(last.args.j))

\* C24 witness: the specs of indices 9999 and 10000
C24_Witness ==
    /\ last.op = "generate_batch_closure"
    /\ last.args.i = 9999
    /\ last.args.j = 10000
    /\ last.ret[1].variation_id # last.ret[2].variation_id

\* i in decimal, zero padded to four digits
ZeroPadded4(i) ==
    IF i >= 10000 THEN ToString(i)
    ELSE ToString(i \div 1000) \o ToString((i \div 100) % 10)
            \o ToString((i \div 10) % 10) \o ToString(i % 10)

\* The ids of Seed(42), indices 0..4 (computed from the defining formulas)
Seed42Ids ==
    <<"var_0000_13679457532755275413", "var_0001_13432527470776545160",
      "var_0002_18105923034897077331", "var_0003_17864077645780634326",
      "var_0004_13469799137962766343">>

\* C25: in the batch returned by generate_batch the spec at 0-based position
\* i has seed derive(base_seed, i), variation_id "var_" + i padded to four
\* digits + "_" + the seed in decimal, the engine's schema_version and the
\* given session id, asset class and intent text; every spec's params are
\* base_params, so the specs differ only in seed and variation_id.
C25_BatchSpecFields ==
    last.op = "generate_batch"
        => \A n \in 1..Len(last.ret) :
            LET spec == last.ret[n]
            IN  /\ spec.seed = derive(last.args.base_seed, U64FromNat(n - 1))
                /\ spec.variation_id =
                     "var_" \o ZeroPadded4(n - 1) \o "_" \o FormatU64(spec.seed)
                /\ last.args.base_seed = Seed42
                     => spec.variation_id = Seed42Ids[n]
                /\ spec.schema_version = "1.0"
                /\ spec.base_session_id = last.args.base_session_id
                /\ spec.asset_class = last.args.asset_class
                /\ spec.intent_text = last.args.intent_text
                /\ spec.params = last.args.base_params
                /\ \A m \in 1..Len(last.ret) :
                     [last.ret[m] EXCEPT !.seed = spec.seed,
                                         !.variation_id = spec.variation_id] = spec

\* C25 witness: the batch of five specs of Seed(42)
C25_Witness ==
    /\ last.op = "generate_batch"
    /\ last.args.base_seed = Seed42
    /\ last.args.count = 5
    /\ last.ret[5].variation_id = "var_0004_13469799137962766343"

IsU64(a) == Len(a) = 8 /\ \A i \in 1..8 : a[i] \in 0..255

\* The seed plus the constant 0x9E3779B97F4A7C15 plus the index, then the
\* two rounds z = (z xor (z >> 30)) * 0xBF58476D1CE4E5B9 and
\* z = (z xor (z >> 27)) * 0x94D049BB133111EB, all modulo 2^64
TwoRounds(seed, index) ==
    LET z0 == wrapping_add(wrapping_add(seed, GoldenGamma), index)
        z1 == wrapping_mul(Xor(z0, Shr(z0, 30)), MixMul1)
    IN  wrapping_mul(Xor(z1, Shr(z1, 27)), MixMul2)

\* Values computed from the formulas with unbounded integers:
\* <<seed, index, z after the two rounds, z xor (z >> 31)>>
DeriveVectors ==
    {<<Seed42, U64FromNat(0),
       <<219, 10, 69, 84, 39, 50, 215, 189>>, <<149, 110, 235, 47, 38, 50, 215, 189>>>>,
     <<Seed42, U64FromNat(4),
       <<227, 157, 254, 91, 242, 86, 238, 186>>, <<7, 48, 34, 46, 243, 86, 238, 186>>>>,
     <<Seed42, U64FromNat(10000),
       <<124, 210, 147, 238, 91, 152, 2, 218>>, <<203, 226, 150, 90, 90, 152, 2, 218>>>>,
     <<U64Zero, U64FromNat(0),
       <<222, 157, 92, 191, 56, 168, 32, 226>>, <<175, 205, 29, 123, 57, 168, 32, 226>>>>,
     <<U64Max, U64FromNat(0),
       <<205, 206, 215, 210, 118, 113, 217, 228>>, <<32, 44, 101, 27, 119, 113, 217, 228>>>>,
     <<U64Max, U64FromNat(1),
       <<222, 157, 92, 191, 56, 168, 32, 226>>, <<175, 205, 29, 123, 57, 168, 32, 226>>>>,
     <<U64Max, U64Max,
       <<2, 213, 180, 223, 145, 62, 32, 243>>, <<33, 168, 244, 57, 144, 62, 32, 243>>>>,
     <<U64HighBit, U64HighBit,
       <<222, 157, 92, 191, 56, 168, 32, 226>>, <<175, 205, 29, 123, 57, 168, 32, 226>>>>}

\* C27 as stated: derive(seed, index) is total over all 64-bit seeds and
\* indices, every addition and multiplication wrapping modulo 2^64, and its
\* result is the seed plus the constant plus the index after the two rounds
\* of (xor-shift, multiply).
C27_DeriveTwoRounds ==
    last.op = "derive"
        => /\ IsU64(last.ret)
           /\ last.ret = TwoRounds(last.args.seed, last.args.index)

\* C27 amended: derive(seed, index) is total, every addition and
\* multiplication wrapping modulo 2^64, and its result is z xor (z >> 31),
\* where z is the seed plus the constant plus the index after the two rounds.
C27_DeriveMixing ==
    last.op = "derive"
        => LET z == TwoRounds(last.args.seed, last.args.index)
           IN  /\ IsU64(last.ret)
               /\ last.ret = Xor(z, Shr(z, 31))
               /\ \A v \in DeriveVectors :
                    (last.args.seed = v[1] /\ last.args.index = v[2])
                        => z = v[3] /\ last.ret = v[4]

\* C27 witness: derive(u64::MAX, u64::MAX), where both additions wrap
C27_Witness ==
    /\ last.op = "derive"
    /\ last.args.seed = U64Max
    /\ last.args.index = U64Max
    /\ last.ret = <<33, 168, 244, 57, 144, 62, 32, 243>>

\* C28 as stated: Bounded::new fails with InvalidBounds exactly when
\* min >= max, and for min < max succeeds for every value.
C28_InvalidBoundsIffGe ==
    last.op = "Bounded::new"
        => /\ last.ret.err \in {"Ok", "InvalidBounds"}
           /\ (last.ret.err = "InvalidBounds") <=> FGe(last.args.min, last.args.max)
           /\ FLt(last.args.min, last.args.max) => last.ret.err = "Ok"

\* C28 amended: Bounded::new fails with InvalidBounds (carrying min and max)
\* exactly when min < max does not hold, that is when min >= max or one of
\* the bounds is NaN; for min < max it succeeds for every value.
C28_InvalidBoundsIffNotLt ==
    last.op = "Bounded::new"
        => /\ last.ret.err \in {"Ok", "InvalidBounds"}
           /\ (last.ret.err = "InvalidBounds")
                <=> \/ FGe(last.args.min, last.args.max)
                    \/ last.args.min = NaN
                    \/ last.args.max = NaN
           /\ last.ret.err = "InvalidBounds"
                => last.ret.val = [min |-> last.args.min, max |-> last.args.max]
           /\ FLt(last.args.min, last.args.max) => last.ret.err = "Ok"

\* C28 witness: a construction refused for a NaN bound
C28_Witness ==
    /\ last.op = "Bounded::new"
    /\ last.args.min = NaN
    /\ last.args.max = Fin(100)
    /\ last.ret.err = "InvalidBounds"

\* v clamped into [min, max]: the result lies in the range and is the
\* nearest bound, or v itself if v lies in the range
ClampedInto(result, v, min, max) ==
    /\ result.k # "nan" /\ FGe(result, min) /\ FGe(max, result)
    /\ FGt(v, max) => result = max
    /\ FLt(v, min) => result = min
    /\ (FGe(v, min) /\ FGe(max, v)) => result = v

\* C29 as stated: for all min < max and any value, Bounded::new yields a
\* parameter whose value lies in [min, max] and is the nearest bound (max
\* above, min below, the value itself otherwise), min and max stored as given.
C29_ConstructionClamps ==
    (last.op = "Bounded::new" /\ FLt(last.args.min, last.args.max))
        => /\ last.ret.err = "Ok"
           /\ ClampedInto(last.ret.val.value, last.args.value,
                          last.args.min, last.args.max)
           /\ last.ret.val.min = last.args.min
           /\ last.ret.val.max = last.args.max

\* C30 as stated: after set(new_value) on a parameter with min < max the
\* stored value is new_value clamped into [min, max] whatever the previous
\* value was, and min and max are unchanged.
C30_SetClamps ==
    (last.op = "Bounded::set" /\ FLt(last.args.self.min, last.args.self.max))
        => /\ ClampedInto(last.ret.value, last.args.new_value,
                          last.args.self.min, last.args.self.max)
           /\ last.ret.min = last.args.self.min
           /\ last.ret.max = last.args.self.max

\* The derived seeds and variation ids of a session, in order
SeedsAndIds(s) ==
    [i \in 1..Len(s.variations) |->
        <<s.variations[i].seed, s.variations[i].variation_id>>]

C31_ClampedIdempotent ==
    (last.op = "Bounded::clamped" /\ FLt(last.args.self.min, last.args.self.max))
        => /\ last.ret.twice = last.ret.once
           /\ (/\ FGe(last.args.self.value, last.args.self.min)
               /\ FGe(last.args.self.max, last.args.self.value))
                => last.ret.once = last.args.self
           /\ last.ret.once.min = last.args.self.min
           /\ last.ret.once.max = last.args.self.max

\* C31 witness: a value above max is moved onto max by the first call and
\* kept by the second
C31_Witness ==
    /\ last.op = "Bounded::clamped"
    /\ last.args.self = Bounded(Fin(500), Fin(0), Fin(100))
    /\ last.ret.once = Bounded(Fin(100), Fin(0), Fin(100))
    /\ last.ret.twice = last.ret.once

\* C32 as stated: for every ParameterSet p and every delta d, after
\* p.apply_delta(d) every one of the six fields is within its own [min, max],
\* each field present in d holds clamp(old value + offset), each field absent
\* from d has exactly its previous value, and no min or max changes.
C32_DeltaClampsFieldwise ==
    last.op = "apply_delta"
        => \A i \in 1..Len(ParamFields) :
            LET f == ParamFields[i]
                old == last.args.self[f]
                new == last.ret[f]
                d == last.args.delta[f]
            IN  /\ WithinBounds(new)
                /\ d # <<>> => ClampedInto(new.value, FAdd(old.value, d[1]),
                                           old.min, old.max)
                /\ d = <<>> => new = old
                /\ new.min = old.min
                /\ new.max = old.max

\* C33: apply_delta is field-independent: a delta applied in one call leaves
\* the same parameter set (the same stored value, min and max in every
\* field) as its single-field deltas applied one after another in any
\* order, and two deltas that set no field in common commute.
C33_FieldIndependent ==
    /\ last.op = "apply_delta_in_parts" => last.ret.parts = last.ret.whole
    /\ last.op = "apply_delta_pair" => last.ret.d1_d2 = last.ret.d2_d1

\* C33 witness: the delta that sets all six fields, applied field by field
\* from the last field to the first, where extrusion_depth is clamped
C33_Witness ==
    /\ last.op = "apply_delta_in_parts"
    /\ last.args.self = ParameterSetV1_default
    /\ last.args.order = <<"detail_density", "erosion_intensity",
                           "symmetry_break", "bevel_amount",
                           "extrusion_depth", "height_scale">>
    /\ last.ret.parts.extrusion_depth.value = Fin(10)
    /\ last.ret.parts.height_scale.value = Fin(110)
    /\ last.ret.parts = last.ret.whole

\* The position in ParamFields of the first field of p, from position i on,
\* that does not satisfy min <= value <= max, or 0
RECURSIVE FirstNotWithin(_, _)
FirstNotWithin(p, i) ==
    IF i > Len(ParamFields) THEN 0
    ELSE IF ~WithinBounds(p[ParamFields[i]]) THEN i
    ELSE FirstNotWithin(p, i + 1)

\* C34 as stated: ParameterSetV1::validate returns Ok exactly when all six
\* fields satisfy min <= value <= max; otherwise it fails with OutOfRange
\* carrying the name, value, min and max of the first out-of-bounds field in
\* the order height_scale, extrusion_depth, bevel_amount, symmetry_break,
\* erosion_intensity, detail_density.
C34_ValidateIffWithin ==
    last.op = "ParameterSetV1::validate"
        => LET p == last.args.self
               i == FirstNotWithin(p, 1)
           IN  /\ (last.ret.err = "Ok") <=> AllWithinBounds(p)
               /\ i # 0 => /\ last.ret.err = "OutOfRange"
                           /\ last.ret.val =
                                [field |-> ParamFields[i],
                                 value |-> p[ParamFields[i]].value,
                                 min   |-> p[ParamFields[i]].min,
                                 max   |-> p[ParamFields[i]].max]

\* C35 as stated: every session returned by Project::create_session has
\* base_params on which validate() succeeds, all fields within bounds, for
\* every style profile and every class override previously stored with
\* set_class_override.
C35_CreatedSessionValid ==
    (last.op = "create_session" /\ last.ret.err = "Ok")
        => /\ params_validate(last.ret.val.base_params).err = "Ok"
           /\ AllWithinBounds(last.ret.val.base_params)

\* C36: every session operation that returns an error (push_intent with
\* EmptyIntent; approve_variation with InvalidDimensions, UnknownVariation
\* or DuplicateApproval; validate with any error) leaves the session exactly
\* as it was before the call.
C36_ErrorLeavesSession ==
    [][(/\ steps' = steps + 1
        /\ last'.op \in {"push_intent", "approve_variation", "validate"}
        /\ last'.ret.err # "Ok")
        => /\ session' = session
           /\ last'.op = "push_intent" => last'.ret.err = "EmptyIntent"
           /\ last'.op = "approve_variation"
                => last'.ret.err \in {"InvalidDimensions", "UnknownVariation",
                                      "DuplicateApproval"}]_vars

\* C36 witness: a duplicate approval was refused on a session that holds
\* one approval, an intent and a batch
C36_Witness ==
    /\ live
    /\ last.op = "approve_variation"
    /\ last.ret.err = "DuplicateApproval"
    /\ Len(session.approvals) = 1
    /\ Len(session.intent_history) = 1
    /\ Len(session.variations) >= 1

\* C37: approve_variation tests dimensions, then existence, then duplicate:
\* a call with invalid dimensions returns InvalidDimensions also when the id
\* is unknown or already approved, and a call with valid dimensions for an
\* id that is approved but not among the current variations returns
\* UnknownVariation, not DuplicateApproval. (A refused call leaves the
\* session as it was, so the session of the state is the one the call saw.)
C37_CheckOrder ==
    last.op = "approve_variation"
        => /\ ~AllPositiveFinite(last.args.dimensions)
                => last.ret.err = "InvalidDimensions"
           /\ (/\ AllPositiveFinite(last.args.dimensions)
               /\ last.args.variation_id \in ApprovedIds(session)
               /\ last.args.variation_id \notin VariationIds(session))
                => last.ret.err = "UnknownVariation"
           /\ (/\ AllPositiveFinite(last.args.dimensions)
               /\ last.ret.err = "DuplicateApproval")
                => last.args.variation_id \in VariationIds(session)

\* C37 witness: an id that is approved but no longer among the variations
\* was named with valid dimensions and refused as unknown
C37_Witness ==
    /\ live
    /\ last.op = "approve_variation"
    /\ AllPositiveFinite(last.args.dimensions)
    /\ last.args.variation_id \in ApprovedIds(session)
    /\ last.args.variation_id \notin VariationIds(session)
    /\ last.ret.err = "UnknownVariation"

\* The batch the last generate_variations or append_variations call
\* produced: the last `count` entries of variations
LastBatch ==
    SubSeq(session.variations,
           Len(session.variations) - last.args.count + 1,
           Len(session.variations))

\* C38: no session operation changes base_seed, session_id or asset_class,
\* so the spec at batch index i of every batch generate_variations or
\* append_variations produces carries the seed derive(base_seed, i) and the
\* id formatted from i and that seed, whatever intents were pushed and
\* deltas applied before: the same seed and id in every batch of the session.
C38_SameSeedPerIndex ==
    /\ [][(live /\ live')
            => /\ session'.base_seed = session.base_seed
               /\ session'.session_id = session.session_id
               /\ session'.asset_class = session.asset_class]_vars
    /\ [](last.op \in {"generate_variations", "append_variations"}
            => /\ Len(LastBatch) = last.args.count
               /\ \A n \in 1..Len(LastBatch) :
                    /\ LastBatch[n].seed
                         = SeedAndIdOf(session.base_seed, n - 1).seed
                    /\ LastBatch[n].variation_id
                         = SeedAndIdOf(session.base_seed, n - 1).variation_id
                    /\ LastBatch[n].base_session_id = session.session_id
                    /\ LastBatch[n].asset_class = session.asset_class)

\* C38 witness: after an intent and a delta a second batch was appended to
\* the first; both begin with the same seed and id although their parameter
\* snapshots differ
C38_Witness ==
    /\ live
    /\ last.op = "append_variations"
    /\ last.args.count = 1
    /\ Len(session.variations) = 2
    /\ Len(session.intent_history) = 1
    /\ session.variations[1].seed = session.variations[2].seed
    /\ session.variations[1].variation_id = session.variations[2].variation_id
    /\ session.variations[1].params # session.variations[2].params

\* The position of the first spec of s.variations that carries id, or 0
RECURSIVE FirstWithId(_, _, _)
FirstWithId(s, id, i) ==
    IF i > Len(s.variations) THEN 0
    ELSE IF s.variations[i].variation_id = id THEN i
    ELSE FirstWithId(s, id, i + 1)

\* The seed and parameter snapshot of the spec id resolves to in s
Design(s, id) ==
    LET v == s.variations[FirstWithId(s, id, 1)]
    IN  [seed |-> v.seed, params |-> v.params]

\* C39 as stated: approvals pin the design they were made for: whenever an
\* approval's variation_id resolves to a spec in the current variations,
\* that spec has the seed and the parameter snapshot of the spec that
\* carried the id when it was approved. An approval is made for a spec of
\* the current variations, so the statement requires every step to keep
\* the design an approved id resolves to, as long as it resolves.
C39_ApprovalsPinDesign ==
    [][(live /\ live')
        => \A j \in 1..Len(session.approvals) :
            LET id == session.approvals[j].variation_id
            IN  (FirstWithId(session, id, 1) # 0 /\ FirstWithId(session', id, 1) # 0)
                    => Design(session', id) = Design(session, id)]_vars

\* C40: in every state reachable through session operations the approved_id
\* values of all approvals are pairwise distinct, and the approval at
\* position k (from 0) of approvals has an approved_id beginning with
\* "appr_" + k + "_" (followed by its variation_id).
C40_ApprovedIdsDistinct ==
    live => /\ \A j \in 1..Len(session.approvals) :
                 session.approvals[j].approved_id
                    = "appr_" \o ToString(j - 1) \o "_"
                        \o session.approvals[j].variation_id
            /\ \A j, k \in 1..Len(session.approvals) :
                 j # k => session.approvals[j].approved_id
                            # session.approvals[k].approved_id

\* C40 witness: two approvals, at positions 0 and 1
C40_Witness ==
    /\ live
    /\ Len(session.approvals) = 2
    /\ session.approvals[1].approved_id = "appr_0_var_0000_13679457532755275413"
    /\ session.approvals[2].approved_id = "appr_1_var_0001_13432527470776545160"

=============================================================================
